---- MODULE Spec2Model ----
(***************************************************************************)
(* GraphEmitter (ImprovedParticle/graphEmitter.cpp): the particle pool,    *)
(* the time-sliced spawn scheduler and the aging pass of the emitter.      *)
(*                                                                         *)
(* Particle slots are numbered 1..n_part_capacity in allocation order; a   *)
(* Particle* is a slot number and NULL is 0.  Each emitter is a record of  *)
(* its member fields; the fields of a Particle are the per-slot sequences  *)
(* next, currentAge, totalLifetime and dataBlock.  All emitters are bound  *)
(* to the one GraphEmitterData held in mDataBlock.  Times are in           *)
(* milliseconds.                                                           *)
(***************************************************************************)
EXTENDS Integers, Sequences, FiniteSets, TLC

VARIABLES
    mDataBlock,   \* the GraphEmitterData the emitters are bound to
    emitter,      \* emitter id -> the GraphEmitter's member fields
    call,         \* what the last completed call was and what it did
    calls,        \* the number of calls made so far
    faulted       \* TRUE once a call dereferenced a null or indeterminate pointer

vars == <<mDataBlock, emitter, call, calls, faulted>>

----------------------------------------------------------------------------
(* Program constants *)

NULL == 0

ChunkSize == 16

FudgeFactor == 8

MaxTickMS == 500

(* advanceTime's dt is counted in microseconds; "if( dt < 0.00001 )" *)
EpsilonUS == 10

(* dt * 1000.0f: the microseconds of a millisecond *)
MicrosPerMS == 1000

(* Bounds of the model: the slots an emitter's pool may grow to, and the   *)
(* calls made on the emitters in one run.                                  *)

MaxCapacity == 56

MaxCalls == 5

(* What an indeterminate U32 (a field of a Particle that was never         *)
(* written) may hold when it is first read: a small and a large value.     *)
(* With these and the bounds above no U32 sum of the model reaches 2^32.   *)
IndeterminateU32 == {0, 2000000000}

(* Marks a Particle field that has not been written since operator new[]. *)
Unwritten == -1

----------------------------------------------------------------------------
(* Helpers *)

SetMax(S) == CHOOSE x \in S : \A y \in S : y <= x

(* randI() % (2 * variance + 1) - variance, added to base *)
RandAround(base, variance) == { base + k : k \in (0 - variance)..variance }

(* What randI() may return, a U32 below 2^31: a small and a large value    *)
RandIValues == {0, 2000000000}

(* base, and when variance is not 0                                        *)
(* S32(randI() % (2 * variance + 1)) - S32(variance) added to it.  For a   *)
(* negative variance the S32 divisor 2 * variance + 1 is converted to      *)
(* U32, where it is above every value of randI(): the remainder is the     *)
(* value of randI() itself.                                                *)
PeriodDraws(base, variance) ==
    IF variance = 0 THEN {base}
    ELSE IF variance > 0 THEN RandAround(base, variance)
    ELSE { base + r - variance : r \in RandIValues }

----------------------------------------------------------------------------
(* GraphEmitterData *)

(* The index buffer size: partListInitSize after allocPrimBuffer.  The     *)
(* number of calls is kept in primBuffAllocs.                              *)
allocPrimBuffer(d, overrideSize) ==
    LET maxPartLife == SetMax({ d.particleDataBlocks[i].lifetimeMS
                                  + d.particleDataBlocks[i].lifetimeVarianceMS :
                                i \in 1..Len(d.particleDataBlocks) })
        estimate == (maxPartLife \div (d.ejectionPeriodMS - d.periodVarianceMS))
                       + FudgeFactor
    IN [d EXCEPT !.partListInitSize =
                     IF overrideSize # -1 THEN overrideSize ELSE estimate,
                 !.primBuffAllocs = @ + 1]

(* A datablock as the constructor, the field reflection and onAdd's        *)
(* validation leave it.                                                    *)
GraphEmitterData(period, variance, lifetime, advance, particles) ==
    [ ejectionPeriodMS   |-> period,
      periodVarianceMS   |-> variance,
      lifetimeMS         |-> lifetime,
      lifetimeVarianceMS |-> 0,
      overrideAdvance    |-> advance,
      particleDataBlocks |-> particles,
      ejectionVelocity   |-> 2,
      velocityVariance   |-> 0,
      orientParticles    |-> FALSE,
      orientOnVelocity   |-> TRUE,
      alignParticles     |-> FALSE,
      sortParticles      |-> FALSE,
      reverseOrder       |-> FALSE,
      partListInitSize   |-> 0,
      primBuffAllocs     |-> 0 ]

(* onAdd's validation of the period, of the ejection velocity, of the      *)
(* lifetime and of their variances                                         *)
onAdd(d) ==
    LET period   == IF d.ejectionPeriodMS < 1 THEN 1 ELSE d.ejectionPeriodMS
        lifetime == IF d.lifetimeMS < 0 THEN 0 ELSE d.lifetimeMS
        lifeVar  == IF d.lifetimeVarianceMS > lifetime THEN lifetime
                    ELSE d.lifetimeVarianceMS
        variance == IF d.periodVarianceMS >= period THEN period - 1
                    ELSE d.periodVarianceMS
        velocity == IF d.ejectionVelocity < 0 THEN 0 ELSE d.ejectionVelocity
        velVar0  == IF d.velocityVariance < 0 THEN 0 ELSE d.velocityVariance
        velVar   == IF velVar0 > velocity THEN velocity ELSE velVar0
    IN [d EXCEPT !.ejectionPeriodMS = period, !.periodVarianceMS = variance,
                 !.ejectionVelocity = velocity, !.velocityVariance = velVar,
                 !.lifetimeMS = lifetime, !.lifetimeVarianceMS = lifeVar]

(* A datablock after preload on the client, which calls allocPrimBuffer.   *)
DataBlock(period, variance, lifetime, advance, particles) ==
    allocPrimBuffer(GraphEmitterData(period, variance, lifetime, advance, particles),
                    -1)

(* A ParticleData: the lifetime its particles are given.                   *)
ParticleData(lifetime, variance) ==
    [ lifetimeMS |-> lifetime, lifetimeVarianceMS |-> variance ]

----------------------------------------------------------------------------
(* GraphEmitter: construction and datablock binding *)

GraphEmitter ==
    [ bound             |-> FALSE,
      mDeleteWhenEmpty  |-> FALSE,
      mDeleteOnTick     |-> FALSE,
      mInternalClock    |-> 0,
      mNextParticleTime |-> 0,
      mLastPosition     |-> "origin",
      mHasLastPosition  |-> FALSE,
      mLifetimeMS       |-> 0,
      mElapsedTimeMS    |-> 0,
      part_freelist     |-> NULL,
      part_list_head    |-> NULL,
      n_part_capacity   |-> 0,
      n_parts           |-> 0,
      next              |-> << >>,
      currentAge        |-> << >>,
      totalLifetime     |-> << >>,
      dataBlock         |-> << >>,
      vel               |-> << >>,
      inScene          |-> FALSE,
      sceneAdds         |-> 0,
      sceneRemoves      |-> 0,
      mCurBuffSize      |-> 0,
      mVertBuff         |-> NULL,
      tOutOfBounds      |-> FALSE,
      deleted           |-> FALSE,
      deletions         |-> 0,
      mDead             |-> FALSE ]

(* new Particle[n]: n slots whose fields are not written *)
NewParticles(n) == [i \in 1..n |-> Unwritten]

onNewDataBlock(m, d, lifetimeDraw) ==
    LET m1 == [m EXCEPT !.bound = TRUE, !.mLifetimeMS = lifetimeDraw]
        cap == d.partListInitSize
    IN IF cap > 0
       THEN [m1 EXCEPT
               !.n_part_capacity = cap,
               !.part_freelist   = 1,
               !.next            = [i \in 1..cap |-> IF i < cap THEN i + 1 ELSE NULL],
               !.currentAge      = NewParticles(cap),
               !.totalLifetime   = NewParticles(cap),
               !.dataBlock       = NewParticles(cap),
               !.vel             = NewParticles(cap),
               !.part_list_head  = NULL,
               !.n_parts         = 0]
       ELSE m1

----------------------------------------------------------------------------
(* The two lists, walked through the next links.  A walk stops at NULL, or *)
(* after MaxCapacity + ChunkSize steps when the links form a cycle.        *)

RECURSIVE Walk(_, _, _)
Walk(next, p, fuel) ==
    IF p = NULL \/ fuel = 0 THEN << >>
    ELSE <<p>> \o Walk(next, next[p], fuel - 1)

WalkFuel == MaxCapacity + ChunkSize + 1

LiveList(m) == Walk(m.next, m.part_list_head, WalkFuel)

FreeList(m) == Walk(m.next, m.part_freelist, WalkFuel)

Range(s) == { s[i] : i \in 1..Len(s) }

(* p->next, where p = NULL stands for &part_list_head *)
NextOf(m, p) == IF p = NULL THEN m.part_list_head ELSE m.next[p]

(* p->next = q *)
SetNext(m, p, q) ==
    IF p = NULL THEN [m EXCEPT !.part_list_head = q]
    ELSE [m EXCEPT !.next[p] = q]

----------------------------------------------------------------------------
(* A call in progress: the emitter e and the datablock d as the call has   *)
(* changed them so far, the locals currTime and particlesAdded, and what   *)
(* the call has done: spawns (addParticle calls), growths (chunks added),  *)
(* allocs (the sizes passed to allocPrimBuffer), grewWithFree (a chunk was *)
(* added while the free list was not empty), collapsed (particles expired  *)
(* by the advance code), linked (pNew of each addParticle that linked      *)
(* one), advancedOn (for each run of the advance code with a non-zero      *)
(* advanceMS: last_part, the number of the spawn it followed, and whether  *)
(* it expired the particle), instants (currTime at each addParticle),      *)
(* periods (each nextTime the spawn loop drew),                            *)
(* fault (a null or indeterminate pointer was dereferenced; the call does  *)
(* not go on).                                                             *)

Begin(m, d) ==
    [ e |-> m, d |-> d, currTime |-> 0, particlesAdded |-> FALSE,
      spawns |-> 0, growths |-> 0, allocs |-> << >>, grewWithFree |-> FALSE,
      collapsed |-> 0, linked |-> << >>, advancedOn |-> << >>,
      instants |-> << >>, periods |-> << >>, fault |-> FALSE ]

(* The nodes a path-segment call is made for.  NoNode is a null            *)
(* GraphEmitterNode*.                                                      *)
Node(standAlone, period, variance, shuttingDown) ==
    [ isNull |-> FALSE, standAloneEmitter |-> standAlone,
      sa_ejectionPeriodMS |-> period, sa_periodVarianceMS |-> variance,
      sa_ejectionVelocity |-> 2, sa_velocityVariance |-> 0,
      currentlyShuttingDown |-> shuttingDown ]

NoNode ==
    [ isNull |-> TRUE, standAloneEmitter |-> FALSE,
      sa_ejectionPeriodMS |-> 0, sa_periodVarianceMS |-> 0,
      sa_ejectionVelocity |-> 0, sa_velocityVariance |-> 0,
      currentlyShuttingDown |-> FALSE ]

----------------------------------------------------------------------------
(* addParticle *)

(* MustGrow that lets one particle more in before it grows *)
MustGrowLate(n, capacity, partListInitSize) ==
    n > capacity + 1 \/ n > partListInitSize + 1

(* The growth test of addParticle, n being n_parts after its increment *)
MustGrow(n, capacity, partListInitSize) ==
    n > capacity \/ n > partListInitSize

(* The chunk of ChunkSize slots pushed on the free list one by one: the    *)
(* first slot of the chunk points to the old free-list head, each later    *)
(* slot to the slot before it, and the last slot is the new head.          *)
GrowPool(m) ==
    LET cap == m.n_part_capacity
    IN [m EXCEPT
          !.n_part_capacity = cap + ChunkSize,
          !.next = @ \o [i \in 1..ChunkSize |->
                            IF i = 1 THEN m.part_freelist ELSE cap + i - 1],
          !.currentAge    = @ \o NewParticles(ChunkSize),
          !.totalLifetime = @ \o NewParticles(ChunkSize),
          !.dataBlock     = @ \o NewParticles(ChunkSize),
          !.vel           = @ \o NewParticles(ChunkSize),
          !.part_freelist = cap + ChunkSize]

(* LinkNew that links the new particle behind the head of the live list   *)
LinkNewBehindHead(m) ==
    LET pNew == m.part_freelist
        head == m.part_list_head
    IN IF head = NULL
       THEN [m EXCEPT !.part_freelist  = m.next[pNew],
                      !.next[pNew]     = NULL,
                      !.part_list_head = pNew]
       ELSE [m EXCEPT !.part_freelist  = m.next[pNew],
                      !.next[pNew]     = m.next[head],
                      !.next[head]     = pNew]

(* pNew = part_freelist; part_freelist = pNew->next;                       *)
(* pNew->next = part_list_head.next; part_list_head.next = pNew            *)
LinkNew(m) ==
    LET pNew == m.part_freelist
    IN [m EXCEPT !.part_freelist  = m.next[pNew],
                 !.next[pNew]     = m.part_list_head,
                 !.part_list_head = pNew]

(* particleDataBlocks is empty: allocPrimBuffer's particleDataBlocks[0]    *)
(* and addParticle's randI() % particleDataBlocks.size() are undefined.    *)
NoParticles(d) == Len(d.particleDataBlocks) = 0

(* n_parts++, the growth and the linking of the new particle, common to    *)
(* both addParticle overloads.  Taking a particle from an empty free list  *)
(* dereferences NULL.                                                      *)
AllocateParticle(c) ==
    LET m0   == [c.e EXCEPT !.n_parts = @ + 1]
        grow == MustGrow(m0.n_parts, m0.n_part_capacity, c.d.partListInitSize)
        m1   == IF grow THEN GrowPool(m0) ELSE m0
        d1   == IF grow /\ ~NoParticles(c.d)
                THEN allocPrimBuffer(c.d, m1.n_part_capacity) ELSE c.d
        c1   == [c EXCEPT !.d = d1,
                          !.spawns = @ + 1,
                          !.instants = Append(@, c.currTime),
                          !.growths = IF grow THEN @ + 1 ELSE @,
                          !.allocs = IF grow THEN Append(@, m1.n_part_capacity) ELSE @,
                          !.grewWithFree = @ \/ (grow /\ m0.part_freelist # NULL)]
    IN IF grow /\ NoParticles(c.d)
       THEN [c1 EXCEPT !.e = m1, !.fault = TRUE]
       ELSE IF m1.part_freelist = NULL
       THEN [c1 EXCEPT !.e = m1, !.fault = TRUE]
       ELSE [c1 EXCEPT !.e = LinkNew(m1), !.linked = Append(@, m1.part_freelist)]

(* updateKeyData: the clamp of totalLifetime *)
ClampLifetime(life) == IF life < 1 THEN 1 ELSE life

(* initialVel = velocity + (variance * 2.0f * randF()) - variance: the     *)
(* two ends of the range randF() spans.  The speed of a particle is the    *)
(* length of ejectionAxis * initialVel, ejectionAxis being a rotated unit  *)
(* axis.                                                                   *)
InitialVel(velocity, variance) ==
    { IF v < 0 THEN 0 - v ELSE v : v \in {velocity - variance, velocity + variance} }

(* pNew->vel = ejectionAxis * initialVel, pNew->currentAge = 0,            *)
(* initializeParticle of a datablock chosen at random, updateKeyData:      *)
(* every outcome of the draws.  vels is the set initialVel is drawn from.  *)
InitialiseParticle(c, vels) ==
    LET pNew == c.e.part_list_head
        pds  == c.d.particleDataBlocks
    IN IF Len(pds) = 0
       THEN { [c EXCEPT !.fault = TRUE] }
       ELSE { [c EXCEPT !.e.currentAge[pNew]    = 0,
                        !.e.totalLifetime[pNew] = ClampLifetime(x[2]),
                        !.e.dataBlock[pNew]     = x[1],
                        !.e.vel[pNew]           = x[3]] :
                x \in UNION { {i} \X RandAround(pds[i].lifetimeMS,
                                                pds[i].lifetimeVarianceMS)
                                  \X vels :
                              i \in 1..Len(pds) } }

(* What a field holds when it is read: what was last written to it, or,    *)
(* when it never was, any value.                                           *)
ReadU32(v) == IF v = Unwritten THEN IndeterminateU32 ELSE {v}

(* The particle at the head keeps what its slot held: nothing is written.  *)
LeaveParticle(c) ==
    LET pNew == c.e.part_list_head
    IN { [c EXCEPT !.e.currentAge[pNew] = age, !.e.totalLifetime[pNew] = life] :
           <<age, life>> \in ReadU32(c.e.currentAge[pNew])
                               \X ReadU32(c.e.totalLifetime[pNew]) }

(* addParticle(pos, axis, vel, axisx): the outcomes *)
addParticle(c) ==
    LET c1 == AllocateParticle(c)
    IN IF c1.fault THEN {c1}
       ELSE InitialiseParticle(c1, InitialVel(c.d.ejectionVelocity,
                                              c.d.velocityVariance))

(* addParticle(pos, axis, vel, axisx, nodeDat): the outcomes *)
addParticleNode(c, nodeDat) ==
    LET c1 == AllocateParticle(c)
    IN IF c1.fault THEN {c1}
       ELSE IF nodeDat.isNull THEN { [c1 EXCEPT !.fault = TRUE] }
       ELSE IF ~nodeDat.currentlyShuttingDown
       THEN InitialiseParticle(c1,
                IF nodeDat.standAloneEmitter
                THEN InitialVel(nodeDat.sa_ejectionVelocity,
                                nodeDat.sa_velocityVariance)
                ELSE InitialVel(c.d.ejectionVelocity, c.d.velocityVariance))
       ELSE LeaveParticle(c1)

----------------------------------------------------------------------------
(* Reading through a Particle's dataBlock pointer: a pointer that was      *)
(* never written is indeterminate, and the read either faults or goes on.  *)
DerefFaults(db) == IF db = Unwritten THEN {TRUE, FALSE} ELSE {FALSE}

(* t = currentAge / totalLifetime is beyond 1.0: what                      *)
(* AssertFatal(t <= 1.0f, ...) of updateKeyData tests                      *)
KeyTimeOutOfBounds(currentAge, totalLifetime) == currentAge > totalLifetime

(* updateKeyData(part): the clamp of the lifetime, after the read of       *)
(* part->dataBlock in the caller.  tOutOfBounds records that the           *)
(* assertion's condition was false in some call (a build without           *)
(* assertions goes on).                                                    *)
updateKeyData(m, part) ==
    LET life == ClampLifetime(m.totalLifetime[part])
    IN [m EXCEPT !.totalLifetime[part] = life,
                 !.tOutOfBounds = @ \/ KeyTimeOutOfBounds(m.currentAge[part], life)]

----------------------------------------------------------------------------
(* Deletion *)

(* IsDead without the test *)
DeadCheckMissing(m) == FALSE

(* "if( mDead ) return;" at the top of an entry point *)
IsDead(m) == m.mDead

(* deleteObject(): the object is marked deleted (isDeleted()) and          *)
(* onRemove's removeFromScene runs; the object is kept in the model with   *)
(* mDead set, as the entry points' tests of mDead expect it.  deletions    *)
(* counts the calls of deleteObject().                                     *)
deleteObject(m) ==
    IF m.inScene
    THEN [m EXCEPT !.deleted = TRUE, !.deletions = @ + 1,
                   !.inScene = FALSE, !.sceneRemoves = @ + 1]
    ELSE [m EXCEPT !.deleted = TRUE, !.deletions = @ + 1]

(* deleteWhenEmpty() *)
deleteWhenEmpty(m) ==
    LET okToDelete == ~m.mDead /\ m.bound /\ ~m.deleted
    IN IF ~okToDelete THEN m
       ELSE IF m.n_parts = 0
       THEN deleteObject([m EXCEPT !.mDeleteWhenEmpty = TRUE, !.mDead = TRUE])
       ELSE [m EXCEPT !.mDeleteWhenEmpty = TRUE]

(* processTick(move) *)
processTick(m) ==
    IF m.mDeleteOnTick THEN deleteObject([m EXCEPT !.mDead = TRUE]) ELSE m

----------------------------------------------------------------------------
(* emitParticles along a path segment *)

(* LifetimeOver with the comparison of the times turned round *)
LifetimeOverInverted(lifetimeMS, elapsedTimeMS) ==
    lifetimeMS > 0 /\ elapsedTimeMS < lifetimeMS

(* LifetimeOver that is already true when the lifetime is just reached *)
LifetimeOverAtEnd(lifetimeMS, elapsedTimeMS) ==
    lifetimeMS > 0 /\ elapsedTimeMS >= lifetimeMS

(* "lifetime over - no more particles" *)
LifetimeOver(lifetimeMS, elapsedTimeMS) ==
    lifetimeMS > 0 /\ elapsedTimeMS > lifetimeMS

(* MustDefer that also defers a particle due at the end of the segment *)
MustDeferAtEnd(nextParticleTime, numMilliseconds) ==
    nextParticleTime >= numMilliseconds

(* The pending particle is not due in this segment *)
MustDefer(nextParticleTime, numMilliseconds) ==
    nextParticleTime > numMilliseconds

(* The period drawn for the next particle *)
NextTimeDraws(node, d) ==
    IF node.standAloneEmitter
    THEN PeriodDraws(node.sa_ejectionPeriodMS, node.sa_periodVarianceMS)
    ELSE PeriodDraws(d.ejectionPeriodMS, d.periodVarianceMS)

(* CrossesSegmentEnd that also holds back a particle due at the end *)
CrossesOrReachesSegmentEnd(currTime, nextTime, numMilliseconds) ==
    currTime + nextTime >= numMilliseconds

(* The next particle falls after the end of the segment *)
CrossesSegmentEnd(currTime, nextTime, numMilliseconds) ==
    currTime + nextTime > numMilliseconds

(* ExpiredOnSpawn with the comparison turned round *)
ExpiredOnSpawnInverted(advanceMS, totalLifetime) == advanceMS < totalLifetime

(* The advance code's expiry test *)
ExpiredOnSpawn(advanceMS, totalLifetime) == advanceMS > totalLifetime

(* ReleaseHead that pushes the head on the free list and leaves it linked  *)
(* as the head of the live list                                            *)
ReleaseHeadStillLinked(m) ==
    LET last_part == m.part_list_head
    IN [m EXCEPT !.n_parts          = @ - 1,
                 !.next[last_part]  = m.part_freelist,
                 !.part_freelist    = last_part]

(* Unlink the head of the live list and push it on the free list *)
ReleaseHead(m) ==
    LET last_part == m.part_list_head
    IN [m EXCEPT !.part_list_head   = m.next[last_part],
                 !.n_parts          = @ - 1,
                 !.next[last_part]  = m.part_freelist,
                 !.part_freelist    = last_part]

(* The advance code after a spawn of the loop: the outcomes *)
AdvanceNewParticle(c, numMilliseconds) ==
    LET advanceMS == numMilliseconds - c.currTime
        last_part == c.e.part_list_head
    IN IF c.d.overrideAdvance \/ advanceMS = 0 THEN {c}
       ELSE IF ExpiredOnSpawn(advanceMS, c.e.totalLifetime[last_part])
       THEN { [c EXCEPT !.e = ReleaseHead(c.e), !.collapsed = @ + 1,
                        !.advancedOn = Append(@, [part |-> last_part,
                                                  spawn |-> c.spawns,
                                                  expired |-> TRUE])] }
       ELSE { IF f THEN [c EXCEPT !.fault = TRUE]
                   ELSE [c EXCEPT !.e = updateKeyData(c.e, last_part),
                                  !.advancedOn = Append(@, [part |-> last_part,
                                                            spawn |-> c.spawns,
                                                            expired |-> FALSE])] :
              f \in DerefFaults(c.e.dataBlock[last_part]) }

(* The spawn loop from a call in progress: the outcomes.  A nextTime that  *)
(* is not positive fails AssertFatal(nextTime > 0, ...): the call stops.   *)
RECURSIVE SpawnLoop(_, _, _)
SpawnLoop(c, numMilliseconds, node) ==
    IF c.fault \/ ~(c.currTime < numMilliseconds) THEN {c}
    ELSE IF node.isNull THEN { [c EXCEPT !.fault = TRUE] }
    ELSE UNION {
        LET c0 == [c EXCEPT !.periods = Append(@, nextTime)]
        IN IF ~(nextTime > 0) THEN { [c0 EXCEPT !.fault = TRUE] }
           ELSE IF CrossesSegmentEnd(c.currTime, nextTime, numMilliseconds)
           THEN { [c0 EXCEPT
                     !.e.mNextParticleTime = (c.currTime + nextTime) - numMilliseconds,
                     !.e.mInternalClock    = @ + (numMilliseconds - c.currTime)] }
           ELSE UNION {
                  IF c1.fault THEN {c1}
                  ELSE UNION { SpawnLoop(c2, numMilliseconds, node) :
                               c2 \in AdvanceNewParticle(
                                        [c1 EXCEPT !.particlesAdded = TRUE],
                                        numMilliseconds) } :
                  c1 \in addParticleNode(
                           [c0 EXCEPT !.currTime = @ + nextTime,
                                      !.e.mInternalClock = @ + nextTime],
                           node) } :
        nextTime \in NextTimeDraws(node, c.d) }

(* JoinScene that never adds the emitter *)
JoinSceneSkipped(m) == m

(* JoinScene without the test of getSceneManager() *)
JoinSceneAgain(m) ==
    IF m.n_parts > 0
    THEN [m EXCEPT !.inScene = TRUE, !.sceneAdds = @ + 1]
    ELSE m

(* The end of an emit call: joining the scene and the process list *)
JoinScene(m) ==
    IF m.n_parts > 0 /\ ~m.inScene
    THEN [m EXCEPT !.inScene = TRUE, !.sceneAdds = @ + 1]
    ELSE m

(* ConsumePending that leaves mNextParticleTime as it was *)
ConsumePendingKept(c, node) ==
    LET t == c.e.mNextParticleTime
    IN { IF c1.fault THEN c1
         ELSE [c1 EXCEPT !.particlesAdded = TRUE] :
         c1 \in addParticleNode([c EXCEPT !.currTime = @ + t,
                                          !.e.mInternalClock = @ + t], node) }

(* The pending particle emitted at its time: the outcomes *)
ConsumePending(c, node) ==
    LET t == c.e.mNextParticleTime
    IN { IF c1.fault THEN c1
         ELSE [c1 EXCEPT !.particlesAdded = TRUE, !.e.mNextParticleTime = 0] :
         c1 \in addParticleNode([c EXCEPT !.currTime = @ + t,
                                          !.e.mInternalClock = @ + t], node) }

(* Defer that leaves the internal clock where it was *)
DeferClockStopped(m, end, numMilliseconds) ==
    [m EXCEPT !.mNextParticleTime = @ - numMilliseconds,
              !.mLastPosition     = end,
              !.mHasLastPosition  = TRUE]

(* Defer that adds to the clock only what the pending time was short of    *)
(* a whole period                                                          *)
DeferClockShort(m, end, numMilliseconds) ==
    [m EXCEPT !.mNextParticleTime = @ - numMilliseconds,
              !.mInternalClock    = @ + (numMilliseconds - 1),
              !.mLastPosition     = end,
              !.mHasLastPosition  = TRUE]

(* "Defer to next update": the pending particle is due after the segment *)
Defer(m, end, numMilliseconds) ==
    [m EXCEPT !.mNextParticleTime = @ - numMilliseconds,
              !.mInternalClock    = @ + numMilliseconds,
              !.mLastPosition     = end,
              !.mHasLastPosition  = TRUE]

(* emitParticles(start, end, axis, velocity, numMilliseconds, node):      *)
(* the outcomes, as calls that have run to their end                       *)
emitParticles(m, d, end, numMilliseconds, node) ==
    LET c0 == Begin(m, d)
    IN IF IsDead(m) THEN {c0}
       ELSE IF NoParticles(d) THEN {c0}
       ELSE IF LifetimeOver(m.mLifetimeMS, m.mElapsedTimeMS) THEN {c0}
       ELSE IF m.mNextParticleTime # 0
               /\ MustDefer(m.mNextParticleTime, numMilliseconds)
       THEN { [c0 EXCEPT !.e = Defer(m, end, numMilliseconds)] }
       ELSE { IF c.fault THEN c
              ELSE [c EXCEPT !.e = [JoinScene(c.e) EXCEPT !.mLastPosition = end,
                                                          !.mHasLastPosition = TRUE]] :
              c \in UNION { SpawnLoop(c1, numMilliseconds, node) :
                            c1 \in IF m.mNextParticleTime # 0
                                   THEN ConsumePending(c0, node)
                                   ELSE {c0} } }

(* The node argument of the call that names none *)
DefaultNode == NoNode

(* realStart of emitParticles(point, useLastPosition, ...) *)
RealStart(m, point, useLastPosition) ==
    IF useLastPosition /\ m.mHasLastPosition THEN m.mLastPosition ELSE point

(* emitParticles(point, useLastPosition, axis, velocity, numMilliseconds): *)
(* the segment from RealStart to point                                     *)
emitParticlesFromLast(m, d, point, useLastPosition, numMilliseconds) ==
    IF IsDead(m) THEN {Begin(m, d)}
    ELSE IF LifetimeOver(m.mLifetimeMS, m.mElapsedTimeMS) THEN {Begin(m, d)}
    ELSE emitParticles(m, d, point, numMilliseconds, DefaultNode)

(* The burst's loop: count calls of addParticle *)
RECURSIVE BurstLoop(_, _)
BurstLoop(c, count) ==
    IF c.fault \/ count <= 0 THEN {c}
    ELSE UNION { BurstLoop(c1, count - 1) : c1 \in addParticle(c) }

(* ForgetLastPosition that keeps the flag *)
ForgetLastPositionSkipped(m) == m

(* "mHasLastPosition = false" at the end of the burst *)
ForgetLastPosition(m) == [m EXCEPT !.mHasLastPosition = FALSE]

(* emitParticles(rCenter, rNormal, radius, velocity, count) *)
emitParticlesBurst(m, d, count) ==
    IF IsDead(m) THEN {Begin(m, d)}
    ELSE IF LifetimeOver(m.mLifetimeMS, m.mElapsedTimeMS) THEN {Begin(m, d)}
    ELSE { IF c.fault THEN c
           ELSE [c EXCEPT !.e = ForgetLastPosition(JoinScene(c.e))] :
           c \in BurstLoop(Begin(m, d), count) }

----------------------------------------------------------------------------
(* advanceTime *)

(* ClampTick without the clamp *)
ClampTickMissing(dt) == dt

(* dt after "if( dt > 0.5 ) dt = 0.5" *)
ClampTick(dt) ==
    IF dt > MaxTickMS * MicrosPerMS THEN MaxTickMS * MicrosPerMS ELSE dt

(* WholeMS that rounds up *)
WholeMSRoundedUp(dt) == (dt + MicrosPerMS - 1) \div MicrosPerMS

(* WholeMS of a tick that passes no time *)
WholeMSNone(dt) == 0

(* (U32)(dt * 1000.0f), and (S32)(dt * 1000.0f) for a dt that is not       *)
(* negative: the whole milliseconds of dt                                  *)
WholeMS(dt) == dt \div MicrosPerMS

(* The delta a tick of dtMS whole milliseconds applies *)
TickMS(dtMS) == WholeMS(ClampTick(dtMS * MicrosPerMS))

(* Expired that holds from the lifetime on *)
ExpiredAtLifetime(currentAge, totalLifetime) == currentAge >= totalLifetime

(* The eviction test of the aging pass *)
Expired(currentAge, totalLifetime) == currentAge > totalLifetime

(* The walk without "part = last_part": it goes on from the evicted        *)
(* particle's new next, the old head of the free list                      *)
ResumeFromEvicted(m, last_part, part) == m.next[part]

(* Where the walk goes on after part was evicted: "part = last_part",      *)
(* then the loop's "part = part->next"                                     *)
ResumeAfterEvict(m, last_part, part) == NextOf(m, last_part)

(* Evict that unlinks part and does not push it on the free list *)
EvictLeaking(m, last_part, part) ==
    [SetNext(m, last_part, m.next[part]) EXCEPT !.n_parts = @ - 1]

(* Evict without n_parts-- *)
EvictUncounted(m, last_part, part) ==
    LET m1 == SetNext(m, last_part, m.next[part])
    IN [m1 EXCEPT !.next[part]    = m.part_freelist,
                  !.part_freelist = part]

(* n_parts--; last_part->next = part->next; part->next = part_freelist;    *)
(* part_freelist = part                                                    *)
Evict(m, last_part, part) ==
    LET m1 == SetNext(m, last_part, m.next[part])
    IN [m1 EXCEPT !.n_parts       = @ - 1,
                  !.next[part]    = m.part_freelist,
                  !.part_freelist = part]

(* The one element of a set of one element *)
The(S) == CHOOSE x \in S : TRUE

(* The iterations a loop over the live list of m is followed for: one more *)
(* than the pool has slots                                                 *)
PoolFuel(m) == m.n_part_capacity + 1

(* One iteration of the aging loop on part, last_part trailing it (NULL    *)
(* standing for &part_list_head): the emitter, the last_part and the part  *)
(* it leaves for the next iteration                                        *)
AgeStep(m, last_part, part, numMSToUpdate) ==
    LET m1 == [m EXCEPT !.currentAge[part] = @ + numMSToUpdate]
        m2 == Evict(m1, last_part, part)
    IN IF Expired(m1.currentAge[part], m1.totalLifetime[part])
       THEN << m2, last_part, ResumeAfterEvict(m2, last_part, part) >>
       ELSE << m1, part, m1.next[part] >>

(* The aging pass from part on *)
RECURSIVE AgeWalk(_, _, _, _, _)
AgeWalk(m, last_part, part, numMSToUpdate, fuel) ==
    IF part = NULL \/ fuel = 0 THEN m
    ELSE The({ AgeWalk(x[1][1], x[1][2], x[1][3], x[2], x[3]) :
               x \in { << AgeStep(m, last_part, part, numMSToUpdate),
                          numMSToUpdate, fuel - 1 >> } })

(* update(ms): each live particle's dataBlock is read and its key data     *)
(* updated; the outcomes as <<emitter, fault, particles updated>>, n being *)
(* the particles updated before part                                       *)
RECURSIVE update(_, _, _, _)
update(m, part, fuel, n) ==
    IF part = NULL \/ fuel = 0 THEN { <<m, FALSE, n>> }
    ELSE UNION { IF x[1] THEN { <<m, TRUE, n>> }
                         ELSE update(x[2], x[3], x[4], x[5]) :
                 x \in { << f, updateKeyData(m, part), m.next[part], fuel - 1,
                            n + 1 >> :
                         f \in DerefFaults(m.dataBlock[part]) } }

(* ShouldDeleteOnTick that never holds *)
ShouldDeleteOnTickNever(m) == FALSE

(* "if (n_parts < 1 && mDeleteWhenEmpty)" after the aging pass *)
ShouldDeleteOnTick(m) == m.n_parts < 1 /\ m.mDeleteWhenEmpty

(* advanceTime(dt): the outcomes as <<emitter, fault, particles updated>>  *)
advanceTime(m, dt) ==
    LET numMSToUpdate == WholeMS(ClampTick(dt))
        m1 == [m EXCEPT !.mElapsedTimeMS = @ + numMSToUpdate]
    IN IF dt < EpsilonUS THEN { <<m, FALSE, 0>> }
       ELSE IF IsDead(m) THEN { <<m, FALSE, 0>> }
       ELSE IF numMSToUpdate = 0 THEN { <<m1, FALSE, 0>> }
       ELSE UNION {
              IF ShouldDeleteOnTick(m2)
              THEN { <<[m2 EXCEPT !.mDeleteOnTick = TRUE], FALSE, 0>> }
              ELSE IF m2.n_parts > 0
                   THEN update(m2, m2.part_list_head, PoolFuel(m2), 0)
                   ELSE { <<m2, FALSE, 0>> } :
              m2 \in { AgeWalk(m1, NULL, m1.part_list_head, numMSToUpdate,
                               PoolFuel(m1)) } }

----------------------------------------------------------------------------
(* prepRenderImage and copyToVB *)

(* The sort keys mDot(pp->pos, viewvec) of the particles, by slot: one map *)
(* for each camera a frame is rendered from.  The first gives every slot a *)
(* key of its own, the second the opposite order, the third equal keys to  *)
(* pairs of slots.                                                         *)
DepthMaps ==
    << [p \in 1..WalkFuel |-> p],
       [p \in 1..WalkFuel |-> 0 - p],
       [p \in 1..WalkFuel |-> p \div 2] >>

(* The argument of a render action that stands for a shadow pass *)
ShadowPass == 0

(* SortsBefore with the keys compared the other way round *)
SortsBeforeNearest(ka, kb) == ka <= kb

(* g_cmpSortParticles puts a before b when b's key is not greater *)
SortsBefore(ka, kb) == ka >= kb

(* dQsort with g_cmpSortParticles: every order of the particles of S in    *)
(* which no particle comes before one with a greater key; particles with   *)
(* equal keys come in any order.                                           *)
RECURSIVE SortedOrders(_, _)
SortedOrders(S, k) ==
    IF S = {} THEN { << >> }
    ELSE UNION { { <<p>> \o rest : rest \in SortedOrders(S \ {p}, k) } :
                 p \in { q \in S : \A r \in S : SortsBefore(k[q], k[r]) } }

(* The quads buffPtr receives, first to last: buffPtr starts at the last   *)
(* quad and steps back when reverseOrder is set.                           *)
Reverse(order) == [i \in 1..Len(order) |-> order[Len(order) + 1 - i]]

BufferOrder(d, order) == IF d.reverseOrder THEN Reverse(order) ELSE order

(* NothingToRender without the tests of the particles *)
NothingToRenderWhenDead(m) == IsDead(m)

(* The guard of prepRenderImage after the pass tests *)
NothingToRender(m) == IsDead(m) \/ m.n_parts = 0 \/ m.part_list_head = NULL

(* What a quad of tempBuff holds that this copyToVB did not write: tempBuff *)
(* is static, so it is what an earlier copyToVB of any emitter left there, *)
(* or what reserve() allocated.                                            *)
Stale == -2

(* setupOriented returns before it writes lVerts: the outcomes for a       *)
(* particle of speed vel.  A vel that was never written compares either    *)
(* way.  setupAligned and setupBillboard always write.                     *)
LeavesQuad(d, vel) ==
    IF d.orientParticles /\ d.orientOnVelocity
    THEN IF vel = Unwritten THEN {TRUE, FALSE} ELSE {vel = 0}
    ELSE {FALSE}

(* The n_parts quads of tempBuff that copyToVB copies to mVertBuff, first  *)
(* to last, when the setup routine is called for the particles of order    *)
(* and buffPtr steps from one quad to the next: the outcomes.              *)
Quads(m, d, order) ==
    LET must == { p \in Range(order) : LeavesQuad(d, m.vel[p]) = {TRUE} }
        may  == { p \in Range(order) : LeavesQuad(d, m.vel[p]) = {TRUE, FALSE} }
    IN { [i \in 1..m.n_parts |->
            IF i > Len(order) THEN Stale
            ELSE IF order[i] \in must \cup left THEN Stale
            ELSE order[i]] :
         left \in SUBSET may }

(* CreateVB that sizes the buffer to n_parts on every call *)
CreateVBAlways(m) ==
    [m EXCEPT !.mCurBuffSize = m.n_parts, !.mVertBuff = m.n_parts * 4]

(* if( !mVertBuff || n_parts > mCurBuffSize ): the buffer is created anew  *)
(* with n_parts * 4 vertices; mVertBuff is the number of its vertices,     *)
(* NULL before the first is created.                                       *)
CreateVB(m) ==
    IF m.mVertBuff = NULL \/ m.n_parts > m.mCurBuffSize
    THEN [m EXCEPT !.mCurBuffSize = m.n_parts, !.mVertBuff = m.n_parts * 4]
    ELSE m

(* copyToVB: the outcomes as <<emitter, quads, fault>>.  The sorted loops  *)
(* read n_parts entries of orderedVector, the unsorted ones walk the list; *)
(* every setup routine reads through part->dataBlock.                      *)
copyToVB(m, d, k) ==
    LET live   == LiveList(m)
        orders == IF d.sortParticles THEN SortedOrders(Range(live), k) ELSE {live}
        m1     == CreateVB(m)
    IN IF d.sortParticles /\ m.n_parts # Len(live) THEN { <<m, << >>, TRUE>> }
       ELSE UNION { { IF f THEN <<m, << >>, TRUE>>
                           ELSE <<m1, quads, FALSE>> :
                      f \in {FALSE} \cup UNION { DerefFaults(m.dataBlock[p]) :
                                                   p \in Range(live) },
                      quads \in Quads(m, d, BufferOrder(d, order)) } :
                    order \in orders }

(* prepRenderImage(state): the outcomes as <<emitter, quads, submitted,    *)
(* fault>>; pass is ShadowPass or the index of the camera's depth map.     *)
prepRenderImage(m, d, pass) ==
    IF pass = ShadowPass THEN { <<m, << >>, FALSE, FALSE>> }
    ELSE IF NothingToRender(m) THEN { <<m, << >>, FALSE, FALSE>> }
    ELSE { <<r[1], r[2], ~r[3], r[3]>> : r \in copyToVB(m, d, DepthMaps[pass]) }

----------------------------------------------------------------------------
(* The state machine.  The host calls the entry points of the emitters in  *)
(* any order, with arguments drawn from the sets an action is given.       *)

Done(op, e, arg, c) ==
    [ op |-> op, id |-> e, arg |-> arg, spawns |-> c.spawns, growths |-> c.growths,
      allocs |-> c.allocs, grewWithFree |-> c.grewWithFree,
      collapsed |-> c.collapsed, linked |-> c.linked,
      advancedOn |-> c.advancedOn, instants |-> c.instants,
      periods |-> c.periods, node |-> NoNode,
      end |-> "none", quads |-> << >>, submitted |-> FALSE, updates |-> 0,
      dt |-> 0, start |-> "none", useLast |-> FALSE ]

NoCall == Done("none", 0, 0, Begin(GraphEmitter, << >>))

(* The instance lifetime drawn in onNewDataBlock *)
EmitterLifetimes(d) == RandAround(d.lifetimeMS, d.lifetimeVarianceMS)

(* The emitters in `made` are constructed and bound to a datablock of      *)
(* `datablocks`; the others are not constructed.                           *)
Setup(datablocks, made) ==
    /\ mDataBlock \in datablocks
    /\ \E life \in EmitterLifetimes(mDataBlock) :
         emitter = [e \in {1, 2} |->
                      IF e \in made THEN onNewDataBlock(GraphEmitter, mDataBlock, life)
                      ELSE GraphEmitter]
    /\ call = NoCall
    /\ calls = 0
    /\ faulted = FALSE

CanCall(e) == ~faulted /\ emitter[e].bound /\ calls < MaxCalls

(* A call of an emit entry point, made for node with the end point end,    *)
(* ran to the end c                                                        *)
Emitted(op, e, arg, node, end, c) ==
    /\ c.e.n_part_capacity <= MaxCapacity
    /\ emitter' = [emitter EXCEPT ![e] = c.e]
    /\ mDataBlock' = c.d
    /\ faulted' = c.fault
    /\ call' = [Done(op, e, arg, c) EXCEPT !.node = node, !.end = end]
    /\ calls' = calls + 1

EmitPath(e, durations, points, nodes) ==
    /\ CanCall(e)
    /\ \E numMilliseconds \in durations, end \in points, node \in nodes :
         \E c \in emitParticles(emitter[e], mDataBlock, end, numMilliseconds, node) :
           Emitted("emitPath", e, numMilliseconds, node, end, c)

EmitFromLast(e, durations, points) ==
    /\ CanCall(e)
    /\ \E numMilliseconds \in durations, point \in points, useLast \in BOOLEAN :
         \E c \in emitParticlesFromLast(emitter[e], mDataBlock, point, useLast,
                                        numMilliseconds) :
           /\ c.e.n_part_capacity <= MaxCapacity
           /\ emitter' = [emitter EXCEPT ![e] = c.e]
           /\ mDataBlock' = c.d
           /\ faulted' = c.fault
           /\ call' = [Done("emitFromLast", e, numMilliseconds, c)
                         EXCEPT !.node = DefaultNode, !.end = point,
                                !.useLast = useLast,
                                !.start = IF IsDead(emitter[e])
                                             \/ LifetimeOver(emitter[e].mLifetimeMS,
                                                             emitter[e].mElapsedTimeMS)
                                          THEN "none"
                                          ELSE RealStart(emitter[e], point, useLast)]
           /\ calls' = calls + 1

EmitBurst(e, counts) ==
    /\ CanCall(e)
    /\ \E count \in counts :
         \E c \in emitParticlesBurst(emitter[e], mDataBlock, count) :
           Emitted("emitBurst", e, count, NoNode, "none", c)

(* advanceTime(dt) for a dt of deltas, in microseconds; the call record    *)
(* keeps dt and, as arg, its whole milliseconds                            *)
AdvanceTimeBy(e, deltas) ==
    /\ CanCall(e)
    /\ \E dt \in deltas :
         \E r \in advanceTime(emitter[e], dt) :
           /\ emitter' = [emitter EXCEPT ![e] = r[1]]
           /\ faulted' = r[2]
           /\ call' = [Done("advanceTime", e, dt \div MicrosPerMS,
                             Begin(GraphEmitter, << >>))
                         EXCEPT !.updates = r[3], !.dt = dt]
           /\ calls' = calls + 1
           /\ UNCHANGED mDataBlock

(* advanceTime(dt) for a dt of whole milliseconds *)
AdvanceTime(e, deltasMS) ==
    AdvanceTimeBy(e, { dtMS * MicrosPerMS : dtMS \in deltasMS })

PrepRenderImage(e, passes) ==
    /\ CanCall(e)
    /\ \E pass \in passes :
         \E r \in prepRenderImage(emitter[e], mDataBlock, pass) :
           /\ emitter' = [emitter EXCEPT ![e] = r[1]]
           /\ faulted' = r[4]
           /\ call' = [Done("prepRenderImage", e, pass, Begin(GraphEmitter, << >>))
                         EXCEPT !.quads = r[2], !.submitted = r[3]]
           /\ calls' = calls + 1
           /\ UNCHANGED mDataBlock

(* A call that changes the emitter only *)
Returned(op, e, m) ==
    /\ emitter' = [emitter EXCEPT ![e] = m]
    /\ call' = Done(op, e, 0, Begin(GraphEmitter, << >>))
    /\ calls' = calls + 1
    /\ UNCHANGED << mDataBlock, faulted >>

DeleteWhenEmpty(e) ==
    /\ CanCall(e)
    /\ Returned("deleteWhenEmpty", e, deleteWhenEmpty(emitter[e]))

ProcessTick(e) ==
    /\ CanCall(e)
    /\ Returned("processTick", e, processTick(emitter[e]))

(* The nodes: one that emits, and one that is shutting down *)
EmittingNode == Node(FALSE, 0, 0, FALSE)

ShuttingDownNode == Node(FALSE, 0, 0, TRUE)

(* A host that drives the emitter frame by frame: each frame one path     *)
(* segment of the frame's duration, then one advanceTime of the same       *)
(* duration; every frame has the duration of the first.                    *)
FrameEmit(e, durations) ==
    /\ call.op \in {"none", "advanceTime"}
    /\ EmitPath(e, IF call.op = "none" THEN durations ELSE {call.arg},
                {"p"}, {EmittingNode})

FrameTick(e) ==
    /\ call.op = "emitPath"
    /\ AdvanceTime(e, {call.arg})

----------------------------------------------------------------------------
(* Spec: one emitter whose particles live shorter than the ejection period *)
(* (so that the pool starts with FudgeFactor slots), with the advance code *)
(* on, driven by path segments, bursts and ticks.  Each spawn draws one of *)
(* the particle datablocks, so a burst of 8 from two of them has 256       *)
(* outcomes: it is explored for the datablock that has one.                *)

PoolDataBlocks ==
    { DataBlock(100, 0, 0, FALSE, << ParticleData(60, 0) >>),
      DataBlock(100, 0, 0, FALSE, << ParticleData(60, 0), ParticleData(90, 0) >>) }

Init == Setup(PoolDataBlocks, {1})

Next ==
    \/ EmitPath(1, {100, 250}, {"p"}, {EmittingNode})
    \/ EmitFromLast(1, {100}, {"p"})
    \/ EmitBurst(1, {1, 2})
    \/ (Len(mDataBlock.particleDataBlocks) = 1 /\ EmitBurst(1, {8}))
    \/ AdvanceTime(1, {40, 1200})

Spec == Init /\ [][Next]_vars

----------------------------------------------------------------------------
(* SpecSched: one emitter with a constant ejection period, driven by path  *)
(* segments for a node that uses the datablock's period or for a stand-    *)
(* alone node that brings its own, and by ticks.                           *)

SchedDataBlocks ==
    { DataBlock(100, 0, 0, TRUE,  << ParticleData(1000, 0) >>),
      DataBlock(200, 0, 0, FALSE, << ParticleData(1000, 0) >>),
      DataBlock(30,  0, 0, TRUE,  << ParticleData(1000, 0) >>) }

StandAloneNode == Node(TRUE, 70, 0, FALSE)

InitSched == Setup(SchedDataBlocks, {1})

NextSched ==
    \/ EmitPath(1, {50, 100, 250}, {"p", "q"}, {EmittingNode, StandAloneNode})
    \/ AdvanceTime(1, {1200})

SpecSched == InitSched /\ [][NextSched]_vars

----------------------------------------------------------------------------
(* SpecBox: one time-boxed emitter (lifetimeMS = 500) whose particles live *)
(* 1000 ms, driven by all three emit entry points and by ticks of 300 ms   *)
(* and of 1200 ms.                                                         *)

BoxDataBlocks ==
    { DataBlock(100, 0, 500, TRUE, << ParticleData(1000, 0) >>) }

InitBox == Setup(BoxDataBlocks, {1})

NextBox ==
    \/ EmitPath(1, {100, 250}, {"p"}, {EmittingNode})
    \/ EmitFromLast(1, {100}, {"q"})
    \/ EmitBurst(1, {0, 1, 2})
    \/ AdvanceTime(1, {300, 1200})

SpecBox == InitBox /\ [][NextBox]_vars

----------------------------------------------------------------------------
(* SpecShared: two emitters bound to one datablock, whose partListInitSize *)
(* each of them tests and overwrites in addParticle.                       *)

SharedDataBlocks ==
    { DataBlock(100, 0, 0, TRUE, << ParticleData(60, 0) >>) }

InitShared == Setup(SharedDataBlocks, {1, 2})

NextShared ==
    \/ EmitBurst(1, {1, 9, 16})
    \/ EmitBurst(2, {1, 9, 16})
    \/ AdvanceTime(1, {40, 1200})
    \/ AdvanceTime(2, {40, 1200})
    \/ PrepRenderImage(1, {1})
    \/ PrepRenderImage(2, {1})

SpecShared == InitShared /\ [][NextShared]_vars

----------------------------------------------------------------------------
(* SpecEmpty: one emitter bound to a datablock that names no particles     *)
(* (particleString NULL passes onAdd; preload on the server side leaves    *)
(* partListInitSize 0, so the emitter has no pool), or to one that does.   *)

EmptyDataBlocks ==
    { GraphEmitterData(100, 0, 0, TRUE, << >>),
      DataBlock(100, 0, 0, TRUE, << ParticleData(60, 0) >>) }

InitEmpty == Setup(EmptyDataBlocks, {1})

NextEmpty ==
    \/ EmitPath(1, {100, 250}, {"p", "q"}, {EmittingNode})
    \/ EmitFromLast(1, {100}, {"p"})
    \/ EmitBurst(1, {1, 2})
    \/ AdvanceTime(1, {40, 1200})

SpecEmpty == InitEmpty /\ [][NextEmpty]_vars

----------------------------------------------------------------------------
(* SpecLife: one emitter through its life: emitting, ticking, rendering,   *)
(* asked to delete itself when empty, and deleted.                         *)

LifeDataBlocks ==
    { DataBlock(100, 0, 0, TRUE, << ParticleData(60, 0) >>) }

InitLife == Setup(LifeDataBlocks, {1})

NextLife ==
    \/ EmitPath(1, {100, 150}, {"p"}, {EmittingNode})
    \/ EmitFromLast(1, {100}, {"p"})
    \/ EmitBurst(1, {1, 2})
    \/ AdvanceTime(1, {40, 1200})
    \/ PrepRenderImage(1, {ShadowPass, 1})
    \/ DeleteWhenEmpty(1)
    \/ ProcessTick(1)

SpecLife == InitLife /\ [][NextLife]_vars

----------------------------------------------------------------------------
(* SpecDraw: one emitter whose particles live 400 ms or 1000 ms, rendered  *)
(* from several cameras, for each setting of sortParticles and             *)
(* reverseOrder.                                                           *)

DrawDataBlocks ==
    { [DataBlock(100, 0, 0, TRUE, << ParticleData(400, 0), ParticleData(1000, 0) >>)
         EXCEPT !.sortParticles = sort, !.reverseOrder = reverse] :
      sort \in BOOLEAN, reverse \in BOOLEAN }

InitDraw == Setup(DrawDataBlocks, {1})

NextDraw ==
    \/ EmitBurst(1, {1, 2})
    \/ AdvanceTime(1, {1200})
    \/ PrepRenderImage(1, {ShadowPass, 3})

SpecDraw == InitDraw /\ [][NextDraw]_vars

----------------------------------------------------------------------------
(* SpecFrame: one emitter driven frame by frame, for a datablock of ten    *)
(* particles per lifetime, one with a period variance and one with two     *)
(* templates and the advance code.                                         *)

FrameDataBlocks ==
    { DataBlock(10, 0, 0, TRUE, << ParticleData(100, 0) >>),
      DataBlock(100, 1, 0, TRUE, << ParticleData(200, 0) >>),
      DataBlock(100, 0, 0, FALSE, << ParticleData(150, 0), ParticleData(300, 0) >>) }

InitFrame == Setup(FrameDataBlocks, {1})

NextFrame ==
    \/ FrameEmit(1, {100, 150})
    \/ FrameTick(1)

SpecFrame == InitFrame /\ [][NextFrame]_vars

----------------------------------------------------------------------------
(* SpecShut: one emitter with the advance code on, driven by path segments *)
(* of 100 ms for a node that emits and of 150 ms for a node that is        *)
(* shutting down, and by ticks.                                            *)

ShutDataBlocks ==
    { DataBlock(100, 0, 0, FALSE, << ParticleData(60, 0) >>) }

InitShut == Setup(ShutDataBlocks, {1})

NextShut ==
    \/ EmitPath(1, {100}, {"p"}, {EmittingNode})
    \/ EmitPath(1, {150}, {"p"}, {ShuttingDownNode})
    \/ AdvanceTime(1, {40})

SpecShut == InitShut /\ [][NextShut]_vars

----------------------------------------------------------------------------
(* SpecTick: one emitter whose particles live 60 ms or 1000 ms, driven by  *)
(* bursts and by ticks of 5 us (below the epsilon), 900 us (no whole       *)
(* millisecond), 40.5 ms and 1.2 s.                                        *)

TickDataBlocks ==
    { DataBlock(100, 0, 0, TRUE, << ParticleData(60, 0), ParticleData(1000, 0) >>) }

InitTick == Setup(TickDataBlocks, {1})

NextTick ==
    \/ EmitBurst(1, {1, 2})
    \/ AdvanceTimeBy(1, {5, 900, 40500, 1200000})

SpecTick == InitTick /\ [][NextTick]_vars

----------------------------------------------------------------------------
(* SpecPeriod: one emitter bound to a datablock whose period and variance  *)
(* are what onAdd's validation makes of the values a script gave them      *)
(* (S32 fields), driven by path segments of 2 ms and 5 ms and by ticks.    *)

PeriodDataBlocks ==
    { allocPrimBuffer(
        onAdd(GraphEmitterData(period, variance, 0, TRUE, << ParticleData(4, 0) >>)),
        -1) :
      period \in {0, 3}, variance \in {-1, 0, 3} }

InitPeriod == Setup(PeriodDataBlocks, {1})

NextPeriod ==
    \/ EmitPath(1, {2, 5}, {"p"}, {EmittingNode})
    \/ AdvanceTime(1, {3})

SpecPeriod == InitPeriod /\ [][NextPeriod]_vars

----------------------------------------------------------------------------
(* SpecOrient: one emitter whose particles live 400 ms, rendered in each   *)
(* of the three quad styles (oriented, aligned, billboard), sorted or not, *)
(* for an ejection velocity of 2 +- 0, of 0, and of 2 +- 2 (a particle is  *)
(* then spawned with a speed of 0 or of 4).  The velocities are what       *)
(* onAdd's validation leaves of them.  No force acts on the particles      *)
(* (ParticleData's drag and gravity coefficients are 0, and there is no    *)
(* wind and no attraction), so update() leaves vel as it is.               *)

OrientDataBlocks ==
    { allocPrimBuffer(
        onAdd([GraphEmitterData(100, 0, 0, TRUE, << ParticleData(400, 0) >>)
                 EXCEPT !.orientParticles = style = "oriented",
                        !.alignParticles = style = "aligned",
                        !.ejectionVelocity = v[1], !.velocityVariance = v[2],
                        !.sortParticles = sort]),
        -1) :
      style \in {"oriented", "aligned", "billboard"},
      v \in { <<2, 0>>, <<0, 0>>, <<2, 2>> },
      sort \in BOOLEAN }

InitOrient == Setup(OrientDataBlocks, {1})

NextOrient ==
    \/ EmitBurst(1, {1, 2})
    \/ AdvanceTime(1, {300})
    \/ PrepRenderImage(1, {1, 3})

SpecOrient == InitOrient /\ [][NextOrient]_vars

----------------------------------------------------------------------------
(* SpecCount: one emitter whose particles live 60 ms, shorter than the     *)
(* ejection period, with the advance code on, so that its live count goes  *)
(* up by path segments and bursts (a burst of 8 uses up the pool) and down *)
(* by the advance code and by the aging loop; it is rendered sorted and    *)
(* unsorted between these calls.                                           *)

CountDataBlocks ==
    { [DataBlock(100, 0, 0, FALSE, << ParticleData(60, 0) >>)
         EXCEPT !.sortParticles = sort] : sort \in BOOLEAN }

InitCount == Setup(CountDataBlocks, {1})

NextCount ==
    \/ EmitPath(1, {100, 250}, {"p"}, {EmittingNode})
    \/ EmitBurst(1, {2, 8})
    \/ AdvanceTime(1, {40})
    \/ PrepRenderImage(1, {1})

SpecCount == InitCount /\ [][NextCount]_vars

----------------------------------------------------------------------------
(* SpecSeg: one emitter without a time-box and with a constant ejection    *)
(* period of 100 ms or of 30 ms, driven by path segments of 0 to 250 ms    *)
(* for a node that uses the datablock's period, in any order, and by       *)
(* ticks.                                                                   *)

SegDataBlocks ==
    { DataBlock(100, 0, 0, TRUE, << ParticleData(1000, 0) >>),
      DataBlock(30,  0, 0, TRUE, << ParticleData(1000, 0) >>) }

InitSeg == Setup(SegDataBlocks, {1})

NextSeg ==
    \/ EmitPath(1, {0, 20, 50, 100, 250}, {"p"}, {EmittingNode})
    \/ AdvanceTime(1, {300})

SpecSeg == InitSeg /\ [][NextSeg]_vars

----------------------------------------------------------------------------
(* SpecClock: one emitter, time-boxed to 400 ms with a period of 100 +- 1  *)
(* ms, or bound to a datablock that names no particles; it is driven by    *)
(* path segments, bursts and ticks, and asked to delete itself when empty  *)
(* (which marks it dead at once while it has no particles).               *)

ClockDataBlocks ==
    { DataBlock(100, 1, 400, TRUE, << ParticleData(1000, 0) >>),
      GraphEmitterData(100, 0, 0, TRUE, << >>) }

InitClock == Setup(ClockDataBlocks, {1})

NextClock ==
    \/ EmitPath(1, {20, 100, 250}, {"p"}, {EmittingNode})
    \/ (~NoParticles(mDataBlock) /\ EmitBurst(1, {1}))
    \/ AdvanceTime(1, {300})
    \/ DeleteWhenEmpty(1)

SpecClock == InitClock /\ [][NextClock]_vars

----------------------------------------------------------------------------
(* SpecKeep: one emitter whose particles live 60 ms or 90 ms, with the     *)
(* advance code on, driven by path segments, bursts and ticks of 30 ms (a  *)
(* particle then reaches an age equal to its lifetime) and of 1200 ms.     *)

KeepDataBlocks ==
    { DataBlock(100, 0, 0, FALSE, << ParticleData(60, 0), ParticleData(90, 0) >>) }

InitKeep == Setup(KeepDataBlocks, {1})

NextKeep ==
    \/ EmitPath(1, {250}, {"p"}, {EmittingNode})
    \/ EmitBurst(1, {2})
    \/ AdvanceTime(1, {30, 1200})

SpecKeep == InitKeep /\ [][NextKeep]_vars

----------------------------------------------------------------------------
(* SpecVar: one emitter bound to a datablock whose lifetimeMS and          *)
(* lifetimeVarianceMS are what onAdd's validation leaves of a lifetime of  *)
(* -2, 0, 2 or 4 ms and of a variance of 0, 1, 2 or 9 ms; the instance     *)
(* lifetime is drawn in onNewDataBlock.  The period is 2 ms and the        *)
(* particles live 2 ms.                                                    *)

VarDataBlocks ==
    { allocPrimBuffer(
        onAdd([GraphEmitterData(2, 0, lifetime, TRUE, << ParticleData(2, 0) >>)
                 EXCEPT !.lifetimeVarianceMS = variance]),
        -1) :
      lifetime \in {-2, 0, 2, 4}, variance \in {0, 1, 2, 9} }

InitVar == Setup(VarDataBlocks, {1})

NextVar ==
    \/ EmitPath(1, {4}, {"p"}, {EmittingNode})
    \/ EmitBurst(1, {1})
    \/ AdvanceTime(1, {3})

SpecVar == InitVar /\ [][NextVar]_vars

----------------------------------------------------------------------------
(* SpecEnd: one emitter whose particles live 2 ms or 5 ms.  Until it is    *)
(* asked to delete itself when empty it is driven by bursts and ticks;     *)
(* from then on nothing is spawned, and the host keeps calling advanceTime *)
(* with a delta of 1 ms or of 3 ms and processTick, for as long as it      *)
(* takes, one advanceTime after each processTick as the host's loop does   *)
(* for every tick of the simulation, until the emitter has deleted itself: *)
(* these calls are not counted in calls.                                   *)

EndDataBlocks ==
    { DataBlock(100, 0, 0, TRUE, << ParticleData(2, 0), ParticleData(5, 0) >>) }

InitEnd == Setup(EndDataBlocks, {1})

Requested(e) ==
    /\ ~faulted /\ emitter[e].bound
    /\ emitter[e].mDeleteWhenEmpty /\ ~emitter[e].deleted

EndTick(e, deltasMS) ==
    /\ Requested(e)
    /\ call.op # "advanceTime"
    /\ \E dtMS \in deltasMS :
         \E r \in advanceTime(emitter[e], dtMS * MicrosPerMS) :
           /\ emitter' = [emitter EXCEPT ![e] = r[1]]
           /\ faulted' = r[2]
           /\ call' = [Done("advanceTime", e, dtMS, Begin(GraphEmitter, << >>))
                         EXCEPT !.updates = r[3], !.dt = dtMS * MicrosPerMS]
           /\ UNCHANGED << mDataBlock, calls >>

EndProcessTick(e) ==
    /\ Requested(e)
    /\ call.op # "processTick"
    /\ emitter' = [emitter EXCEPT ![e] = processTick(emitter[e])]
    /\ call' = Done("processTick", e, 0, Begin(GraphEmitter, << >>))
    /\ UNCHANGED << mDataBlock, calls, faulted >>

EndDeltasMS == {1, 3}

NextEnd ==
    \/ (~emitter[1].mDeleteWhenEmpty /\ EmitBurst(1, {1, 2}))
    \/ (~emitter[1].mDeleteWhenEmpty /\ AdvanceTime(1, {2}))
    \/ DeleteWhenEmpty(1)
    \/ EndTick(1, EndDeltasMS)
    \/ EndProcessTick(1)

SpecEnd ==
    /\ InitEnd /\ [][NextEnd]_vars
    /\ WF_vars(EndTick(1, EndDeltasMS))
    /\ WF_vars(EndProcessTick(1))

----------------------------------------------------------------------------
(* Properties *)

Live(e) == LiveList(emitter[e])

Free(e) == FreeList(emitter[e])

Slots(e) == 1..emitter[e].n_part_capacity

(* A list without a cycle ends within as many steps as there are slots *)
Acyclic(list, e) == Len(list) <= emitter[e].n_part_capacity

(* C1: pool conservation. After any sequence of path-segment spawns,       *)
(* bursts, advance expiries, advanceTime evictions and pool growths, the   *)
(* number of slots on the live list plus the number of slots on the free   *)
(* list equals n_part_capacity.                                            *)
C1_PoolConservation ==
    \A e \in {1, 2} :
       /\ Acyclic(Live(e), e) /\ Acyclic(Free(e), e)
       /\ Len(Live(e)) + Len(Free(e)) = emitter[e].n_part_capacity

(* C1 witness: after a growth started by a path segment or a burst, with   *)
(* an expiry by the advance code and an eviction by advanceTime behind it, *)
(* particles are live and slots are free.                                  *)
C1_Witness ==
    /\ emitter[1].n_part_capacity = FudgeFactor + ChunkSize
    /\ call.op = "advanceTime"
    /\ Len(Live(1)) > 0
    /\ Len(Free(1)) > ChunkSize

(* How often slot s occurs in list *)
Occurrences(list, s) == Cardinality({ i \in 1..Len(list) : list[i] = s })

(* C2: no double-free. In every reachable state each pool slot is on       *)
(* exactly one of the live list and the free list, and on that list        *)
(* exactly once; neither list contains a cycle.                            *)
C2_NoDoubleFree ==
    \A e \in {1, 2} :
       /\ Acyclic(Live(e), e) /\ Acyclic(Free(e), e)
       /\ \A s \in Slots(e) :
            Occurrences(Live(e), s) + Occurrences(Free(e), s) = 1

(* C2 witness: the advance code released the particle it had just spawned  *)
(* into a pool that an eviction by advanceTime had already refilled.       *)
C2_Witness ==
    /\ call.op = "emitPath" /\ call.collapsed > 0
    /\ emitter[1].mElapsedTimeMS > 0
    /\ Len(Live(1)) > 0
    /\ \E s \in Range(Free(1)) : emitter[1].currentAge[s] > emitter[1].totalLifetime[s]

(* The particles of the live list of m, in order, that a tick of ms keeps  *)
Survivors(m, ms) ==
    SelectSeq(LiveList(m), LAMBDA p : ~(m.currentAge[p] + ms > m.totalLifetime[p]))

(* An advanceTime call on emitter e that applied a non-zero delta *)
AgingPass(e) ==
    /\ call'.op = "advanceTime" /\ call'.id = e
    /\ TickMS(call'.arg) > 0
    /\ ~emitter[e].mDead

(* C3: eviction without grace period. Immediately after every advanceTime  *)
(* pass that applies a non-zero delta every live particle has currentAge   *)
(* <= totalLifetime; every particle whose age exceeded its lifetime in the *)
(* pass is on the free list; no live particle is skipped by the walk: the  *)
(* particles kept are aged by the delta and are the live list, in order.   *)
C3_EvictionInSamePass ==
    [][ \A e \in {1, 2} : AgingPass(e) =>
          LET m  == emitter[e]
              m2 == emitter'[e]
              ms == TickMS(call'.arg)
          IN /\ \A p \in Range(LiveList(m2)) :
                   m2.currentAge[p] <= m2.totalLifetime[p]
             /\ \A p \in Range(LiveList(m)) :
                   IF m.currentAge[p] + ms > m.totalLifetime[p]
                   THEN p \in Range(FreeList(m2)) /\ p \notin Range(LiveList(m2))
                   ELSE m2.currentAge[p] = m.currentAge[p] + ms
             /\ LiveList(m2) = Survivors(m, ms) ]_vars

(* C3 witness: a pass evicted two particles that were next to each other   *)
(* on the live list and kept a particle behind them.                       *)
C3_Witness ==
    /\ call.op = "advanceTime"
    /\ Len(Live(1)) > 0
    /\ \E i \in 1..(Len(Free(1)) - 1) :
         LET a == Free(1)[i]
             b == Free(1)[i + 1]
         IN /\ emitter[1].currentAge[a] > emitter[1].totalLifetime[a]
            /\ emitter[1].currentAge[b] > emitter[1].totalLifetime[b]
            /\ emitter[1].currentAge[a] = emitter[1].currentAge[b]
            /\ \E p \in Range(Live(1)) :
                 emitter[1].currentAge[p] >= emitter[1].currentAge[a]

(* A path-segment call on emitter e that the emitter does not suppress *)
PathCall(e) ==
    /\ call'.op = "emitPath" /\ call'.id = e
    /\ ~emitter[e].mDead
    /\ Len(mDataBlock.particleDataBlocks) > 0
    /\ ~(emitter[e].mLifetimeMS > 0
         /\ emitter[e].mElapsedTimeMS > emitter[e].mLifetimeMS)

(* The period and the variance in effect for the node of a call *)
PeriodOf(node) ==
    IF node.standAloneEmitter THEN node.sa_ejectionPeriodMS
    ELSE mDataBlock.ejectionPeriodMS

VarianceOf(node) ==
    IF node.standAloneEmitter THEN node.sa_periodVarianceMS
    ELSE mDataBlock.periodVarianceMS

(* C4: spawn count. A path-segment call entered with no pending sub-period *)
(* (mNextParticleTime = 0), with a constant period P and zero variance and *)
(* a segment of D ms, performs exactly floor(D/P) spawns and carries a     *)
(* pending remainder exactly when D is not a multiple of P, the remainder  *)
(* being P - (D mod P).                                                    *)
C4_SpawnCount ==
    [][ (PathCall(1) /\ emitter[1].mNextParticleTime = 0
                     /\ VarianceOf(call'.node) = 0) =>
          LET P == PeriodOf(call'.node)
              D == call'.arg
          IN /\ call'.spawns = D \div P
             /\ emitter'[1].mNextParticleTime =
                  IF D % P = 0 THEN 0 ELSE P - (D % P) ]_vars

(* C4 witness: a call that was not the first, entered without a pending    *)
(* particle, with a segment that is not a multiple of the period: it       *)
(* spawned twice and carries the remainder.                                *)
C4_Witness ==
    /\ calls > 1
    /\ call.op = "emitPath" /\ call.arg = 250
    /\ call.instants = <<100, 200>>
    /\ emitter[1].mNextParticleTime = 50

(* C5: pending carry across calls. With period 100 ms and zero variance a  *)
(* first path-segment call of 250 ms spawns exactly 2 particles and leaves *)
(* mNextParticleTime = 50; a following call of 100 ms first consumes the   *)
(* pending 50 ms with exactly one spawn, then spawns nothing more and      *)
(* leaves mNextParticleTime = 50.  In general a pending remainder r <=     *)
(* duration is consumed by exactly one spawn at time r before any new      *)
(* period is drawn: the first spawn of the call is at r and every later    *)
(* one at least a drawn period after it.                                   *)
C5_PendingCarry ==
    [][ PathCall(1) =>
          LET r == emitter[1].mNextParticleTime
              D == call'.arg
              P == PeriodOf(call'.node)
              V == VarianceOf(call'.node)
              at == call'.instants
          IN /\ (P = 100 /\ V = 0 /\ r = 0 /\ D = 250) =>
                   /\ call'.spawns = 2
                   /\ emitter'[1].mNextParticleTime = 50
             /\ (P = 100 /\ V = 0 /\ r = 50 /\ D = 100) =>
                   /\ call'.spawns = 1 /\ at = <<50>>
                   /\ emitter'[1].mNextParticleTime = 50
             /\ (r # 0 /\ r <= D) =>
                   /\ call'.spawns >= 1 /\ at[1] = r
                   /\ \A i \in 2..Len(at) : at[i] >= at[i - 1] + (P - V) ]_vars

(* C5 witness: the two calls of the scenario, one after the other from the *)
(* start.                                                                  *)
C5_Witness ==
    /\ calls = 2
    /\ mDataBlock.ejectionPeriodMS = 100
    /\ call.op = "emitPath" /\ call.arg = 100 /\ call.instants = <<50>>
    /\ ~call.node.standAloneEmitter
    /\ emitter[1].mInternalClock = 250 + 100
    /\ emitter[1].n_parts = 2 + 1
    /\ emitter[1].mNextParticleTime = 50

(* A call of an emit entry point on emitter e *)
EmitCall(e) ==
    /\ call'.op \in {"emitPath", "emitFromLast", "emitBurst"}
    /\ call'.id = e

(* The emitter is time-boxed and its elapsed time is beyond its lifetime *)
BoxExceeded(m) == m.mLifetimeMS > 0 /\ m.mElapsedTimeMS > m.mLifetimeMS

(* C6: time-box. For an emitter with mLifetimeMS = L > 0, once             *)
(* mElapsedTimeMS exceeds L no emit entry point (path segment, use-last-   *)
(* position overload, hemisphere burst) spawns a particle, while           *)
(* advanceTime keeps aging and evicting the particles already live.        *)
C6_TimeBox ==
    [][ \A e \in {1, 2} : BoxExceeded(emitter[e]) =>
          /\ EmitCall(e) =>
               /\ call'.spawns = 0
               /\ LiveList(emitter'[e]) = LiveList(emitter[e])
               /\ emitter'[e].n_parts = emitter[e].n_parts
          /\ AgingPass(e) =>
               LET ms == TickMS(call'.arg)
               IN /\ LiveList(emitter'[e]) = Survivors(emitter[e], ms)
                  /\ \A p \in Range(LiveList(emitter'[e])) :
                       emitter'[e].currentAge[p] = emitter[e].currentAge[p] + ms ]_vars

(* C6 witness: the emitter's time is beyond the box, a burst asked for     *)
(* particles and got none, and a particle that was live before is still    *)
(* live and has aged beyond the box.                                       *)
C6_Witness ==
    /\ BoxExceeded(emitter[1])
    /\ call.op = "emitBurst" /\ call.arg > 0 /\ call.spawns = 0
    /\ \E p \in Range(Live(1)) : emitter[1].currentAge[p] > emitter[1].mLifetimeMS

(* C7 as stated: a time-boxed emitter stops emitting once elapsed >=       *)
(* configured lifetime: an emit call made when mElapsedTimeMS equals       *)
(* mLifetimeMS (> 0) spawns no particle.                                   *)
C7_StopsAtBoundary ==
    [][ \A e \in {1, 2} :
          (/\ emitter[e].mLifetimeMS > 0
           /\ emitter[e].mElapsedTimeMS = emitter[e].mLifetimeMS
           /\ EmitCall(e)) => call'.spawns = 0 ]_vars

(* C7 amended: a time-boxed emitter stops emitting once elapsed exceeds    *)
(* the configured lifetime. An emit call made when mElapsedTimeMS equals   *)
(* mLifetimeMS (> 0) is not suppressed: a burst of count spawns count      *)
(* particles and a path segment entered without a pending particle spawns  *)
(* floor(D/P); the first call made with mElapsedTimeMS > mLifetimeMS       *)
(* spawns none.                                                            *)
C7_StopsPastBoundary ==
    [][ \A e \in {1, 2} :
          (emitter[e].mLifetimeMS > 0 /\ EmitCall(e) /\ ~emitter[e].mDead) =>
             /\ (emitter[e].mElapsedTimeMS = emitter[e].mLifetimeMS) =>
                  /\ call'.op = "emitBurst" => call'.spawns = call'.arg
                  /\ (call'.op = "emitPath" /\ emitter[e].mNextParticleTime = 0) =>
                        call'.spawns = call'.arg \div mDataBlock.ejectionPeriodMS
             /\ (emitter[e].mElapsedTimeMS > emitter[e].mLifetimeMS) =>
                  call'.spawns = 0 ]_vars

(* C7 witness: a path segment spawned with the elapsed time equal to the   *)
(* lifetime of the box.                                                    *)
C7_Witness ==
    /\ emitter[1].mLifetimeMS > 0
    /\ emitter[1].mElapsedTimeMS = emitter[1].mLifetimeMS
    /\ call.op = "emitPath" /\ call.spawns > 0

(* The live particles of m with a lifetime of 1000 ms and the given age *)
Aged(m, age) ==
    { p \in Range(LiveList(m)) :
        m.totalLifetime[p] = 1000 /\ m.currentAge[p] = age }

(* C8 as stated: a particle with total lifetime 1000 ms and age 0 that is  *)
(* ticked by 1200 ms in one advanceTime step is evicted in that step: the  *)
(* live count decreases by exactly 1 (for each such particle) and its slot *)
(* is on the free list afterwards.                                         *)
C8_EvictedInOneStep ==
    [][ (AgingPass(1) /\ call'.arg = 1200) =>
          /\ \A p \in Aged(emitter[1], 0) :
                p \in Range(FreeList(emitter'[1]))
          /\ emitter'[1].n_parts
               <= emitter[1].n_parts - Cardinality(Aged(emitter[1], 0)) ]_vars

(* C8 amended: advanceTime clamps its step to 500 ms, so a particle with   *)
(* total lifetime 1000 ms and age 0 that is ticked by 1200 ms in one       *)
(* advanceTime step ages to 500 ms and stays live; it is evicted by the    *)
(* third such step, in which its age (1500) first exceeds its lifetime:    *)
(* in that step the live count decreases by exactly 1 for each such        *)
(* particle and its slot is on the free list afterwards.                   *)
C8_EvictedInThirdStep ==
    [][ (AgingPass(1) /\ call'.arg = 1200) =>
          /\ \A p \in Aged(emitter[1], 0) \cup Aged(emitter[1], 500) :
                /\ p \in Range(LiveList(emitter'[1]))
                /\ emitter'[1].currentAge[p] = emitter[1].currentAge[p] + 500
          /\ \A p \in Aged(emitter[1], 1000) :
                /\ p \in Range(FreeList(emitter'[1]))
                /\ p \notin Range(LiveList(emitter'[1]))
          /\ (\A p \in Range(LiveList(emitter[1])) :
                 p \in Aged(emitter[1], 0) \cup Aged(emitter[1], 500)
                        \cup Aged(emitter[1], 1000)) =>
                emitter'[1].n_parts
                  = emitter[1].n_parts - Cardinality(Aged(emitter[1], 1000)) ]_vars

(* C8 witness: the third step of 1200 ms has evicted a particle that was   *)
(* spawned at age 0 before the first, and nothing else.                    *)
C8_Witness ==
    /\ call.op = "advanceTime" /\ call.arg = 1200
    /\ emitter[1].mElapsedTimeMS = 1500
    /\ emitter[1].n_parts = 0
    /\ Cardinality({ s \in Range(Free(1)) :
                       emitter[1].totalLifetime[s] = 1000
                       /\ emitter[1].currentAge[s] = 1500 }) = 1

(* list2 ends with list1: the slots of list1 are linked as they were *)
IsSuffix(list1, list2) ==
    /\ Len(list1) <= Len(list2)
    /\ SubSeq(list2, Len(list2) - Len(list1) + 1, Len(list2)) = list1

(* C9: growth is demand-only. For every emitter, emitters sharing one      *)
(* datablock with other emitters included, the pool capacity increases     *)
(* only in steps of exactly 16 and only during a spawn that finds the free *)
(* list empty, and growth leaves the order and the membership of the       *)
(* slots already on the live list unchanged.                               *)
C9_DemandOnlyGrowth ==
    [][ \A e \in {1, 2} :
          (emitter'[e].n_part_capacity # emitter[e].n_part_capacity) =>
             /\ EmitCall(e)
             /\ emitter'[e].n_part_capacity
                  = emitter[e].n_part_capacity + ChunkSize * call'.growths
             /\ ~call'.grewWithFree
             /\ IsSuffix(LiveList(emitter[e]), LiveList(emitter'[e])) ]_vars

(* C10: growth scenario. With capacity 8 and 8 live particles, a burst or  *)
(* a path-segment call for a node that spawns k >= 1 particles (none of    *)
(* them expired by the advance code) grows the pool at the 9th spawn by    *)
(* exactly 16 to capacity 24,                                              *)
(* calls allocPrimBuffer exactly once, with 24, keeps the 8 live particles *)
(* in the same list order behind the new ones, and ends with 8 + k live    *)
(* and 16 - k free slots (9 and 15 for k = 1).                             *)
C10_GrowthScenario ==
    [][ \A e \in {1, 2} :
          (/\ emitter[e].n_part_capacity = 8
           /\ emitter[e].n_parts = 8
           /\ Len(LiveList(emitter[e])) = 8
           /\ call'.id = e
           /\ \/ call'.op = "emitBurst"
              \/ call'.op = "emitPath" /\ call'.spawns >= 1
           /\ call'.collapsed = 0) =>
             LET k == IF call'.op = "emitBurst" THEN call'.arg ELSE call'.spawns
             IN /\ ~faulted'
                /\ call'.spawns = k
                /\ emitter'[e].n_part_capacity = 24
                /\ call'.growths = 1
                /\ call'.allocs = << 24 >>
                /\ mDataBlock'.primBuffAllocs = mDataBlock.primBuffAllocs + 1
                /\ mDataBlock'.partListInitSize = 24
                /\ IsSuffix(LiveList(emitter[e]), LiveList(emitter'[e]))
                /\ emitter'[e].n_parts = 8 + k
                /\ Len(LiveList(emitter'[e])) = 8 + k
                /\ Len(FreeList(emitter'[e])) = 16 - k ]_vars

(* C10 witness: the 9th spawn has happened: one call spawned one particle  *)
(* and grew the pool from 8 to 24, leaving 9 live and 15 free slots.       *)
C10_Witness ==
    /\ call.op \in {"emitPath", "emitBurst"} /\ call.id = 1
    /\ call.spawns = 1 /\ call.growths = 1 /\ call.allocs = << 24 >>
    /\ emitter[1].n_part_capacity = 24
    /\ Len(Live(1)) = 9 /\ Len(Free(1)) = 15
    /\ Live(1)[1] = 24

(* A frame of emitter e was built and submitted for drawing *)
Rendered(e) ==
    /\ call.op = "prepRenderImage" /\ call.id = e
    /\ call.submitted

(* C11: the index buffer covers what is drawn. Whenever an emitter renders *)
(* (prepRenderImage with n_parts > 0), the shared index buffer of its      *)
(* datablock has been sized for at least n_parts quads (partListInitSize   *)
(* >= n_parts), for every interleaving of the spawns and pool growths of   *)
(* the emitters bound to the datablock.                                    *)
C11_IndexBufferCovers ==
    \A e \in {1, 2} :
        (Rendered(e) /\ emitter[e].n_parts > 0) =>
            mDataBlock.partListInitSize >= emitter[e].n_parts

(* C12: an empty template list is a safe no-op. For an emitter whose       *)
(* datablock has no bound particle templates, every spawn entry point      *)
(* (path segment, use-last-position overload, hemisphere burst with count  *)
(* > 0) returns without allocating a slot, without changing n_parts or     *)
(* either list, and without faulting.                                      *)
C12_EmptyTemplatesNoOp ==
    [][ \A e \in {1, 2} :
          (NoParticles(mDataBlock) /\ EmitCall(e)) =>
             /\ ~faulted'
             /\ call'.spawns = 0
             /\ emitter'[e].n_part_capacity = emitter[e].n_part_capacity
             /\ emitter'[e].n_parts = emitter[e].n_parts
             /\ LiveList(emitter'[e]) = LiveList(emitter[e])
             /\ FreeList(emitter'[e]) = FreeList(emitter[e]) ]_vars

(* A call of an entry point that tests mDead, on emitter e *)
GuardedCall(e) ==
    /\ call'.id = e
    /\ call'.op \in {"emitPath", "emitFromLast", "emitBurst",
                     "advanceTime", "prepRenderImage"}

(* C13: dead short-circuit. Once mDead is true, every call of an emit      *)
(* overload, advanceTime or prepRenderImage returns without changing the   *)
(* live list, the free list, n_parts, any particle age, mInternalClock,    *)
(* mNextParticleTime, mElapsedTimeMS or the remembered last position.      *)
C13_DeadShortCircuit ==
    [][ \A e \in {1, 2} :
          (emitter[e].mDead /\ GuardedCall(e)) =>
             /\ ~faulted'
             /\ call'.spawns = 0 /\ ~call'.submitted
             /\ LiveList(emitter'[e]) = LiveList(emitter[e])
             /\ FreeList(emitter'[e]) = FreeList(emitter[e])
             /\ emitter'[e].n_parts = emitter[e].n_parts
             /\ emitter'[e].currentAge = emitter[e].currentAge
             /\ emitter'[e].mInternalClock = emitter[e].mInternalClock
             /\ emitter'[e].mNextParticleTime = emitter[e].mNextParticleTime
             /\ emitter'[e].mElapsedTimeMS = emitter[e].mElapsedTimeMS
             /\ emitter'[e].mLastPosition = emitter[e].mLastPosition
             /\ emitter'[e].mHasLastPosition = emitter[e].mHasLastPosition
             /\ emitter'[e].mDead ]_vars

(* C13 witness: an emitter that had emitted and ticked was deleted through *)
(* deleteWhenEmpty and processTick, and a tick of 1200 ms came after that. *)
C13_Witness ==
    /\ emitter[1].mDead /\ emitter[1].mDeleteOnTick
    /\ emitter[1].mElapsedTimeMS = 500
    /\ call.op = "advanceTime" /\ call.arg = 1200

(* C14: idempotent registration. A spawn entry point adds the emitter to   *)
(* the scene and the process list only when it is not registered, so over  *)
(* any sequence of calls the emitter has been added at most once more      *)
(* often than it has been removed, and exactly once more while registered. *)
C14_IdempotentRegistration ==
    \A e \in {1, 2} :
        /\ emitter[e].sceneAdds <= emitter[e].sceneRemoves + 1
        /\ emitter[e].inScene <=> (emitter[e].sceneAdds = emitter[e].sceneRemoves + 1)

(* C14 witness: a third emit call in a row that spawned, on an emitter     *)
(* registered by the first.                                                *)
C14_Witness ==
    /\ calls = 3 /\ emitter[1].n_parts = 3
    /\ call.op = "emitBurst" /\ call.spawns = 1
    /\ emitter[1].inScene /\ emitter[1].sceneAdds = 1

(* C15: live implies registered. After any sequence of emit and            *)
(* advanceTime calls (nothing removes the emitter from the scene), when an *)
(* emit call returns and the emitter holds at least one live particle, the *)
(* emitter is registered with the scene and the process list.              *)
C15_LiveImpliesRegistered ==
    \A e \in {1, 2} :
        (/\ call.op \in {"emitPath", "emitFromLast", "emitBurst"}
         /\ call.id = e
         /\ ~faulted
         /\ emitter[e].n_parts >= 1) => emitter[e].inScene

(* C15 witness: a path-segment call deferred its pending particle and      *)
(* returned early, with particles of earlier calls still live.             *)
C15_Witness ==
    /\ call.op = "emitPath" /\ call.spawns = 0 /\ ~faulted
    /\ emitter[1].mNextParticleTime > 0
    /\ emitter[1].n_parts >= 1 /\ emitter[1].inScene

(* C16: the vertex build is read-only. prepRenderImage/copyToVB never      *)
(* changes the live list, the free list, n_parts, the pool capacity, any   *)
(* particle's age, mInternalClock or mNextParticleTime, and when n_parts   *)
(* is 0 it returns before building or submitting anything.                 *)
C16_RenderReadOnly ==
    [][ \A e \in {1, 2} :
          (call'.op = "prepRenderImage" /\ call'.id = e) =>
             /\ LiveList(emitter'[e]) = LiveList(emitter[e])
             /\ FreeList(emitter'[e]) = FreeList(emitter[e])
             /\ emitter'[e].next = emitter[e].next
             /\ emitter'[e].n_parts = emitter[e].n_parts
             /\ emitter'[e].n_part_capacity = emitter[e].n_part_capacity
             /\ emitter'[e].currentAge = emitter[e].currentAge
             /\ emitter'[e].totalLifetime = emitter[e].totalLifetime
             /\ emitter'[e].mInternalClock = emitter[e].mInternalClock
             /\ emitter'[e].mNextParticleTime = emitter[e].mNextParticleTime
             /\ mDataBlock' = mDataBlock
             /\ (emitter[e].n_parts = 0) =>
                  /\ call'.quads = << >> /\ ~call'.submitted
                  /\ emitter'[e] = emitter[e] ]_vars

(* C16 witness: a frame of three or more quads was built and submitted     *)
(* after a tick had evicted particles.                                     *)
C16_Witness ==
    /\ Rendered(1) /\ Len(call.quads) >= 3
    /\ emitter[1].mCurBuffSize = emitter[1].n_parts
    /\ Len(Free(1)) > 0 /\ emitter[1].mElapsedTimeMS > 0
    /\ \E s \in Range(Free(1)) : emitter[1].currentAge[s] # Unwritten

InitialCapacity(d) == allocPrimBuffer(d, -1).partListInitSize

(* C18: the steady state needs no growth. For an emitter driven frame by   *)
(* frame (each frame one path-segment emit of duration d followed by one   *)
(* advanceTime of the same d), the live count never exceeds the initial    *)
(* capacity maxParticleLifetime / (ejectionPeriod - periodVariance) + 8,   *)
(* so the pool never grows.                                                *)
C18_SteadyStateNoGrowth ==
    \A e \in {1, 2} : emitter[e].bound =>
        /\ emitter[e].n_parts <= InitialCapacity(mDataBlock)
        /\ emitter[e].n_part_capacity = InitialCapacity(mDataBlock)

(* C19: deferral step. When a path-segment emit call is entered with a     *)
(* pending sub-period strictly greater than the segment duration D, it     *)
(* spawns nothing, decreases mNextParticleTime by exactly D, advances      *)
(* mInternalClock by exactly D, records the segment end as last position,  *)
(* and leaves the live list, the free list and n_parts unchanged.          *)
C19_DeferralStep ==
    [][ (PathCall(1) /\ emitter[1].mNextParticleTime > call'.arg) =>
          /\ call'.spawns = 0 /\ call'.growths = 0
          /\ emitter'[1].mNextParticleTime = emitter[1].mNextParticleTime - call'.arg
          /\ emitter'[1].mInternalClock = emitter[1].mInternalClock + call'.arg
          /\ emitter'[1].mLastPosition = call'.end
          /\ emitter'[1].mHasLastPosition
          /\ LiveList(emitter'[1]) = LiveList(emitter[1])
          /\ FreeList(emitter'[1]) = FreeList(emitter[1])
          /\ emitter'[1].n_parts = emitter[1].n_parts
          /\ emitter'[1].n_part_capacity = emitter[1].n_part_capacity ]_vars

(* C19 witness: with a period of 200 ms, a first segment of 50 ms left 150 *)
(* ms pending and a second segment of 50 ms, ending at q, was deferred.    *)
C19_Witness ==
    /\ calls = 2 /\ mDataBlock.ejectionPeriodMS = 200
    /\ call.op = "emitPath" /\ call.arg = 50 /\ call.spawns = 0 /\ call.end = "q"
    /\ ~call.node.standAloneEmitter
    /\ emitter[1].mNextParticleTime = 100
    /\ emitter[1].mInternalClock = 100
    /\ emitter[1].mLastPosition = "q"

(* The lifetimes the templates of the datablock give (variance 0) *)
TemplateLifetimes == { mDataBlock.particleDataBlocks[i].lifetimeMS :
                       i \in 1..Len(mDataBlock.particleDataBlocks) }

(* C20: advance-collapse expiry. With overrideAdvance false, a particle    *)
(* spawned in the spawn loop whose leftover segment time (duration minus   *)
(* spawn instant) is strictly greater than its total lifetime is unlinked  *)
(* from the live-list head and pushed on the free list within the same     *)
(* call, so n_parts is net unchanged by that spawn; a particle whose       *)
(* leftover time is <= its lifetime stays live.                            *)
C20_AdvanceCollapse ==
    [][ (PathCall(1) /\ ~mDataBlock.overrideAdvance /\ ~faulted') =>
          LET D    == call'.arg
              at   == call'.instants
              loop == (IF emitter[1].mNextParticleTime # 0 THEN 2 ELSE 1)..Len(at)
              gone == { i \in loop : \A L \in TemplateLifetimes : D - at[i] > L }
              kept == { i \in loop : \A L \in TemplateLifetimes : D - at[i] <= L }
          IN /\ call'.collapsed >= Cardinality(gone)
             /\ call'.collapsed <= Cardinality(loop) - Cardinality(kept)
             /\ emitter'[1].n_parts
                  = emitter[1].n_parts + call'.spawns - call'.collapsed
             /\ Len(LiveList(emitter'[1])) = emitter'[1].n_parts
             /\ Len(FreeList(emitter'[1]))
                  = emitter'[1].n_part_capacity - emitter'[1].n_parts
             /\ IsSuffix(LiveList(emitter[1]), LiveList(emitter'[1]))
             /\ \A p \in Range(LiveList(emitter'[1])) \ Range(LiveList(emitter[1])) :
                   \E i \in 1..Len(at) :
                      i \notin gone /\ (i \in loop => D - at[i] <= emitter'[1].totalLifetime[p])
             /\ (call'.collapsed > 0 /\ at[Len(at)] # D /\ Len(at) \in gone) =>
                   /\ emitter'[1].part_freelist # NULL
                   /\ emitter'[1].part_freelist \notin Range(LiveList(emitter'[1])) ]_vars

(* C20 witness: a segment of 250 ms spawned at 100 (150 ms left, more than *)
(* any lifetime: expired on the spot) and at 200 (50 ms left: it stays).   *)
C20_Witness ==
    /\ call.op = "emitPath" /\ call.arg = 250 /\ call.instants = << 100, 200 >>
    /\ call.collapsed = 1 /\ calls = 1
    /\ emitter[1].n_parts = 1 /\ Len(Live(1)) = 1 /\ Len(Free(1)) = 7

(* C21: advance-collapse covers every spawn of the call. With              *)
(* overrideAdvance false, each particle spawned by a path-segment call     *)
(* with non-zero leftover time after its spawn instant, the particle       *)
(* spawned by consuming the pending sub-period included, is forward-       *)
(* integrated by its leftover time or expired by the rule before the call  *)
(* returns: the advance code ran for as many spawns as have a leftover,    *)
(* and no particle spawned in the call is left live with a leftover above  *)
(* its lifetime.                                                           *)
C21_AdvanceCoversEverySpawn ==
    [][ (PathCall(1) /\ ~mDataBlock.overrideAdvance /\ ~faulted') =>
          LET D  == call'.arg
              at == call'.instants
          IN /\ Len(call'.advancedOn)
                  = Cardinality({ i \in 1..Len(at) : D - at[i] # 0 })
             /\ emitter'[1].n_parts
                  <= emitter[1].n_parts
                       + Cardinality({ i \in 1..Len(at) :
                                         \E L \in TemplateLifetimes : D - at[i] <= L }) ]_vars

(* The particles a call spawned and did not expire, newest first *)
SpawnedNewestFirst(c) ==
    LET gone == { c.advancedOn[j].spawn :
                    j \in { i \in 1..Len(c.advancedOn) : c.advancedOn[i].expired } }
        kept == SelectSeq([i \in 1..Len(c.linked) |-> i], LAMBDA i : i \notin gone)
    IN [i \in 1..Len(kept) |-> c.linked[kept[Len(kept) + 1 - i]]]

(* C22: newest-first live list. Every spawn links the new particle at the  *)
(* head of the live list and eviction preserves the relative order of the  *)
(* survivors, so the live list, empty at the start, is ordered from most   *)
(* recently spawned to earliest spawned: an emit call leaves the particles *)
(* it spawned, newest first, in front of the particles that were live      *)
(* before it, a tick leaves the survivors in the order they had; and the   *)
(* particle the advance-collapse rule operates on is the one just spawned. *)
C22_NewestFirst ==
    [][ \A e \in {1, 2} :
          /\ (EmitCall(e) /\ ~faulted') =>
               /\ LiveList(emitter'[e]) = SpawnedNewestFirst(call') \o LiveList(emitter[e])
               /\ \A i \in 1..Len(call'.advancedOn) :
                    LET a == call'.advancedOn[i]
                    IN a.spawn \in 1..Len(call'.linked)
                       /\ a.part = call'.linked[a.spawn]
          /\ (call'.op = "advanceTime" /\ call'.id = e) =>
               LET kept == SelectSeq(LiveList(emitter[e]),
                                     LAMBDA p : p \in Range(LiveList(emitter'[e])))
               IN LiveList(emitter'[e]) = kept ]_vars

(* C22 witness: after a tick, a path segment spawned two particles or     *)
(* more and the advance code expired one of them; three or more are live,  *)
(* an older one behind a younger one.                                      *)
C22_Witness ==
    /\ call.op = "emitPath" /\ Len(call.linked) >= 2 /\ call.collapsed >= 1
    /\ emitter[1].mElapsedTimeMS > 0
    /\ Len(Live(1)) >= 3
    /\ \E i \in 1..(Len(Live(1)) - 1) :
          emitter[1].currentAge[Live(1)[i]] < emitter[1].currentAge[Live(1)[i + 1]]

(* C23: the keyframe assertion is unreachable. Over every sequence of      *)
(* spawns, advance-collapse steps and ticks, each call of updateKeyData    *)
(* sees currentAge <= totalLifetime (after the clamp of totalLifetime to   *)
(* >= 1), so the assertion t <= 1.0 never fires.                           *)
C23_KeyframeAssertionUnreachable ==
    \A e \in {1, 2} : ~emitter[e].tOutOfBounds

(* C24: delete-when-empty scheduling. In advanceTime, if after the         *)
(* eviction pass the live count is zero and deleteWhenEmpty was requested, *)
(* deletion is scheduled (mDeleteOnTick set) and no physics update runs in *)
(* that tick; the next processTick then marks the emitter dead and         *)
(* requests its deletion. If deleteWhenEmpty is called while the live      *)
(* count is already zero the emitter is marked dead immediately.           *)
C24_DeleteWhenEmpty ==
    [][ \A e \in {1, 2} :
          /\ (AgingPass(e) /\ emitter[e].mDeleteWhenEmpty
                           /\ emitter'[e].n_parts = 0) =>
               /\ emitter'[e].mDeleteOnTick
               /\ call'.updates = 0
               /\ ~emitter'[e].mDead /\ ~emitter'[e].deleted
          /\ (AgingPass(e) /\ ~(emitter[e].mDeleteWhenEmpty
                                /\ emitter'[e].n_parts = 0)) =>
               /\ emitter'[e].mDeleteOnTick = emitter[e].mDeleteOnTick
               /\ call'.updates = emitter'[e].n_parts
          /\ (call'.op = "processTick" /\ call'.id = e) =>
               IF emitter[e].mDeleteOnTick
               THEN emitter'[e].mDead /\ emitter'[e].deleted /\ ~emitter'[e].inScene
               ELSE emitter'[e] = emitter[e]
          /\ (call'.op = "deleteWhenEmpty" /\ call'.id = e /\ ~emitter[e].mDead) =>
               /\ emitter'[e].mDeleteWhenEmpty
               /\ IF emitter[e].n_parts = 0
                  THEN emitter'[e].mDead /\ emitter'[e].deleted
                       /\ ~emitter'[e].inScene
                  ELSE ~emitter'[e].mDead /\ ~emitter'[e].deleted
                       /\ emitter'[e].mDeleteOnTick = emitter[e].mDeleteOnTick ]_vars

(* C24 witness: particles were emitted, deleteWhenEmpty was called while   *)
(* they were live, a tick evicted the last of them and the processTick     *)
(* after it marked the emitter dead and took it from the scene.            *)
C24_Witness ==
    /\ call.op = "processTick"
    /\ emitter[1].mDead /\ emitter[1].deleted /\ emitter[1].mDeleteOnTick
    /\ emitter[1].mDeleteWhenEmpty
    /\ emitter[1].sceneRemoves = 1 /\ ~emitter[1].inScene
    /\ emitter[1].n_parts = 0
    /\ \E s \in Range(Free(1)) : emitter[1].currentAge[s] > emitter[1].totalLifetime[s]

(* C25: tick clamp. One advanceTime call adds to each live particle's age  *)
(* and to mElapsedTimeMS the same whole-millisecond delta                  *)
(* min(floor(dt*1000), 500); when dt is below the epsilon nothing changes, *)
(* and when the whole-millisecond delta is 0 no particle is aged or        *)
(* evicted and no physics runs.                                            *)
C25_TickClamp ==
    [][ \A e \in {1, 2} :
          (call'.op = "advanceTime" /\ call'.id = e /\ ~emitter[e].mDead) =>
             LET floorMS == call'.dt \div 1000
                 delta   == IF floorMS < 500 THEN floorMS ELSE 500
                 m       == emitter[e]
                 m2      == emitter'[e]
             IN IF call'.dt < 10
                THEN m2 = m /\ call'.updates = 0
                ELSE /\ m2.mElapsedTimeMS = m.mElapsedTimeMS + delta
                     /\ \A p \in Range(LiveList(m)) :
                          m2.currentAge[p] = m.currentAge[p] + delta
                     /\ \A s \in 1..m.n_part_capacity :
                          s \notin Range(LiveList(m)) =>
                             m2.currentAge[s] = m.currentAge[s]
                     /\ (delta = 0) =>
                          /\ m2 = m
                          /\ call'.updates = 0 ]_vars

(* C25 witness: a tick of 900 us after a tick of 40.5 ms left the live     *)
(* particles at the age of 40 ms and the elapsed time at 40 ms.            *)
C25_Witness ==
    /\ call.op = "advanceTime" /\ call.dt = 900
    /\ emitter[1].mElapsedTimeMS = 40
    /\ Len(Live(1)) > 0
    /\ \A p \in Range(Live(1)) : emitter[1].currentAge[p] = 40

(* C26: positive period. For every datablock accepted by onAdd's           *)
(* validation, each inter-spawn period drawn in the path-segment spawn     *)
(* loop lies in [ejectionPeriodMS - periodVarianceMS, ejectionPeriodMS +   *)
(* periodVarianceMS] and is >= 1, so the assertion 'next particle ejection *)
(* time must always be greater than 0' never fires and the loop makes      *)
(* progress on every iteration.                                            *)
C26_PositivePeriod ==
    (call.op = "emitPath" /\ ~call.node.standAloneEmitter) =>
        /\ ~faulted
        /\ \A i \in 1..Len(call.periods) :
             /\ call.periods[i] >= mDataBlock.ejectionPeriodMS
                                     - mDataBlock.periodVarianceMS
             /\ call.periods[i] <= mDataBlock.ejectionPeriodMS
                                     + mDataBlock.periodVarianceMS
             /\ call.periods[i] >= 1
        /\ \A i \in 2..Len(call.instants) : call.instants[i] > call.instants[i - 1]

(* C27: the hemisphere burst is not time-sliced. A hemisphere emit call    *)
(* with count N >= 0 on a live, non-expired emitter with at least one      *)
(* template increases the live count by exactly N, leaves                  *)
(* mNextParticleTime and mInternalClock unchanged, and clears the          *)
(* has-last-position flag, so a following use-last-position call starts    *)
(* its segment at the supplied point.                                      *)
C27_BurstNotTimeSliced ==
    [][ \A e \in {1, 2} :
          (call'.id = e /\ ~emitter[e].mDead /\ ~BoxExceeded(emitter[e])
                        /\ ~NoParticles(mDataBlock)) =>
             /\ (call'.op = "emitBurst") =>
                  /\ ~faulted'
                  /\ call'.spawns = call'.arg
                  /\ emitter'[e].n_parts = emitter[e].n_parts + call'.arg
                  /\ Len(LiveList(emitter'[e])) = Len(LiveList(emitter[e])) + call'.arg
                  /\ IsSuffix(LiveList(emitter[e]), LiveList(emitter'[e]))
                  /\ emitter'[e].mNextParticleTime = emitter[e].mNextParticleTime
                  /\ emitter'[e].mInternalClock = emitter[e].mInternalClock
                  /\ ~emitter'[e].mHasLastPosition
             /\ (call'.op = "emitFromLast" /\ call.op = "emitBurst" /\ call.id = e) =>
                  call'.start = call'.end ]_vars

(* C27 witness: a burst of 2 on an emitter that a path segment of 250 ms   *)
(* had left with 50 ms pending and a last position.                        *)
C27_Witness ==
    /\ call.op = "emitBurst" /\ call.arg = 2 /\ call.spawns = 2
    /\ emitter[1].mNextParticleTime = 50
    /\ emitter[1].mInternalClock = 250
    /\ emitter[1].mLastPosition = "p" /\ ~emitter[1].mHasLastPosition
    /\ emitter[1].n_parts = 4

(* C28: one fresh quad per submitted slot.  For every render, each of the  *)
(* n_parts quad slots copied to the vertex buffer and counted in the       *)
(* render instance was written during this vertex build, each from a live  *)
(* particle of its own, in all three quad styles, oriented rendering of    *)
(* particles with zero velocity included.                                  *)
C28_FreshQuadPerSlot ==
    \A e \in {1, 2} :
      Rendered(e) =>
        LET q == call.quads
        IN /\ Len(q) = emitter[e].n_parts
           /\ \A i \in 1..Len(q) : q[i] # Stale /\ q[i] \in Range(Live(e))
           /\ \A i, j \in 1..Len(q) : i # j => q[i] # q[j]

(* C29: the vertex buffer only grows.  No call makes the recorded quad     *)
(* capacity mCurBuffSize of an emitter smaller, and after every            *)
(* prepRenderImage that ran copyToVB it is at least the live count         *)
(* n_parts, which is the number of quads that were copied.                 *)
C29_VertexBufferOnlyGrows ==
    [][ \A e \in {1, 2} :
          /\ emitter'[e].mCurBuffSize >= emitter[e].mCurBuffSize
          /\ (call'.op = "prepRenderImage" /\ call'.id = e /\ call'.submitted) =>
               /\ Len(call'.quads) = emitter'[e].n_parts
               /\ emitter'[e].mCurBuffSize >= emitter'[e].n_parts ]_vars

(* C29 witness: a frame of one particle was copied to a buffer that an     *)
(* earlier frame had sized for two.                                        *)
C29_Witness ==
    /\ Rendered(1)
    /\ Len(call.quads) = 1 /\ emitter[1].n_parts = 1
    /\ emitter[1].mCurBuffSize = 2 /\ emitter[1].mVertBuff = 8

(* C30: the count matches the list.  In every state of a running program   *)
(* n_parts of an emitter is the number of particles reachable from         *)
(* part_list_head, hence it is not negative, and a sorted render, whose    *)
(* loops iterate n_parts entries of orderedVector, reads exactly the       *)
(* entries collected from the live list.                                   *)
C30_CountMatchesList ==
    ~faulted =>
      \A e \in {1, 2} :
        /\ emitter[e].n_parts = Len(Live(e))
        /\ emitter[e].n_parts >= 0
        /\ (Rendered(e) /\ mDataBlock.sortParticles) =>
             /\ Len(call.quads) = Len(Live(e))
             /\ Range(call.quads) = Range(Live(e))

(* C30 witness: a sorted render of the two particles left after the pool   *)
(* had grown to 24 slots for ten and the aging loop had evicted eight.     *)
C30_Witness ==
    /\ Rendered(1) /\ mDataBlock.sortParticles
    /\ emitter[1].n_parts = 2 /\ Len(call.quads) = 2
    /\ emitter[1].n_part_capacity = 24 /\ Len(Free(1)) = 22

(* C31: spawned particles are initialised.  When a spawning call returns,   *)
(* every particle it linked into the live list that is still live has      *)
(* currentAge = 0 and a particle template and the total lifetime of that    *)
(* template, assigned by this spawn, whatever the state of the owning node  *)
(* (a node that is shutting down included): nothing is left over from a     *)
(* previous occupant of the slot or from the allocation.                    *)
C31_SpawnedInitialised ==
    (~faulted /\ call.op \in {"emitPath", "emitFromLast", "emitBurst"}) =>
      \A i \in 1..Len(call.linked) :
        LET p   == call.linked[i]
            m   == emitter[call.id]
            pds == mDataBlock.particleDataBlocks
        IN (p \in Range(LiveList(m))) =>
             /\ m.currentAge[p] = 0
             /\ m.dataBlock[p] \in 1..Len(pds)
             /\ m.totalLifetime[p]
                  \in { ClampLifetime(l) :
                          l \in RandAround(pds[m.dataBlock[p]].lifetimeMS,
                                           pds[m.dataBlock[p]].lifetimeVarianceMS) }

(* C32: segmentation independence.  With zero period variance, no        *)
(* time-box and an initial pending of 0, every path-segment call advances  *)
(* the internal clock by its duration and spawns one particle for each     *)
(* multiple of the period P that the clock passes or reaches, at the       *)
(* instant the clock is at that multiple, and the pending time it leaves   *)
(* is the time to the next multiple; so a sequence of calls of durations   *)
(* d1..dn spawns floor((d1+...+dn)/P) particles, whatever the split.       *)
C32_SegmentationIndependence ==
    [][ PathCall(1) =>
          LET P      == mDataBlock.ejectionPeriodMS
              clock  == emitter[1].mInternalClock
              clock1 == emitter'[1].mInternalClock
          IN /\ ~faulted'
             /\ clock1 = clock + call'.arg
             /\ call'.spawns = (clock1 \div P) - (clock \div P)
             /\ Len(call'.instants) = call'.spawns
             /\ \A i \in 1..Len(call'.instants) :
                   /\ (clock + call'.instants[i]) % P = 0
                   /\ (clock + call'.instants[i]) \div P = (clock \div P) + i
             /\ emitter'[1].mNextParticleTime = (P - (clock1 % P)) % P ]_vars

(* C32 witness: three segments of 250, 50 and 20 ms, that is 320 ms, have  *)
(* spawned three particles of period 100: two in the first, the pending    *)
(* one in the second, none in the third, which defers the next by 80 ms.   *)
C32_Witness ==
    /\ calls = 3 /\ call.op = "emitPath" /\ call.arg = 20 /\ call.spawns = 0
    /\ mDataBlock.ejectionPeriodMS = 100
    /\ emitter[1].mInternalClock = 320
    /\ emitter[1].n_parts = 3
    /\ emitter[1].mNextParticleTime = 80

(* C33: clock accounting.  A path-segment call that the emitter does not   *)
(* suppress (not dead, templates bound, time-box not exceeded) advances    *)
(* mInternalClock by exactly its duration, whether it defers the pending   *)
(* particle, consumes it, or leaves the spawn loop at the segment end or   *)
(* across it; a suppressed call and a hemisphere burst leave the clock     *)
(* unchanged.                                                              *)
C33_ClockAccounting ==
    [][ \A e \in {1, 2} :
          LET m          == emitter[e]
              suppressed == m.mDead \/ NoParticles(mDataBlock) \/ BoxExceeded(m)
          IN /\ (call'.op = "emitPath" /\ call'.id = e /\ ~suppressed) =>
                  /\ ~faulted'
                  /\ emitter'[e].mInternalClock = m.mInternalClock + call'.arg
             /\ (call'.op = "emitPath" /\ call'.id = e /\ suppressed) =>
                  emitter'[e].mInternalClock = m.mInternalClock
             /\ (call'.op = "emitBurst" /\ call'.id = e) =>
                  emitter'[e].mInternalClock = m.mInternalClock ]_vars

(* C33 witness: after segments of 20 ms and of 250 ms, a segment of 250 ms *)
(* consumed a pending particle after 28 ms, spawned two more and left the  *)
(* loop across the segment end with 75 ms pending; the clock is at 520.    *)
C33_Witness ==
    /\ calls = 3 /\ call.op = "emitPath" /\ call.arg = 250
    /\ call.instants = <<28, 127, 226>>
    /\ emitter[1].mNextParticleTime = 75
    /\ emitter[1].mInternalClock = 520

(* C34: pending bound.  Between calls mNextParticleTime of an emitter is   *)
(* in [0, ejectionPeriodMS + periodVarianceMS - 1]: a spawn deferred       *)
(* across the segment boundary saves a strictly positive remainder below   *)
(* the drawn period, and a deferral never drives it to 0 or below.         *)
C34_PendingBound ==
    \A e \in {1, 2} :
      emitter[e].bound =>
        /\ emitter[e].mNextParticleTime >= 0
        /\ emitter[e].mNextParticleTime
              <= mDataBlock.ejectionPeriodMS + mDataBlock.periodVarianceMS - 1

(* C35: dead only when empty.  Over every interleaving of deleteWhenEmpty, *)
(* emit calls, advanceTime and processTick, an emitter that is marked dead *)
(* (mDead set and its deletion requested) has no live particle.            *)
C35_DeadOnlyWhenEmpty ==
    \A e \in {1, 2} :
      (emitter[e].mDead \/ emitter[e].deleted) => emitter[e].n_parts = 0

(* C36: deletion is requested once.  Over any sequence of deleteWhenEmpty, *)
(* advanceTime, processTick and emit calls, deleteObject is invoked at     *)
(* most once for an emitter: once it is dead neither processTick nor       *)
(* deleteWhenEmpty requests its deletion again.                            *)
C36_DeletionRequestedOnce ==
    \A e \in {1, 2} : emitter[e].deletions <= 1

(* C37: delete-when-empty terminates.  After deleteWhenEmpty was called on *)
(* an emitter with live particles, if nothing more is spawned and          *)
(* advanceTime (with a delta of at least 1 ms) and processTick keep being  *)
(* called, the emitter eventually has no live particle and is marked dead. *)
C37_DeleteWhenEmptyTerminates ==
    (Requested(1) /\ emitter[1].n_parts > 0 /\ ~emitter[1].mDead)
       ~> (emitter[1].n_parts = 0 /\ emitter[1].mDead /\ emitter[1].deleted)

(* C37 witness: the emitter was asked to delete itself with particles      *)
(* live, ticks of 1 ms and of 3 ms evicted them, the last of them a        *)
(* particle of 5 ms, and a processTick marked the emitter dead.            *)
C37_Witness ==
    /\ call.op = "processTick"
    /\ emitter[1].mDeleteWhenEmpty /\ emitter[1].mDeleteOnTick
    /\ emitter[1].mDead /\ emitter[1].deletions = 1
    /\ emitter[1].n_parts = 0
    /\ emitter[1].mElapsedTimeMS > 5
    /\ emitter[1].mElapsedTimeMS % 3 # 0
    /\ emitter[1].part_freelist # NULL
    /\ emitter[1].totalLifetime[emitter[1].part_freelist] = 5
    /\ emitter[1].currentAge[emitter[1].part_freelist] = 6

(* C38: time-box survives variance.  For every datablock accepted by onAdd *)
(* with lifetimeMS > 0, the instance lifetime drawn in onNewDataBlock is   *)
(* > 0, so that the emitter is time-boxed and stops spawning after a       *)
(* bounded elapsed time: an emit call made with the elapsed time beyond    *)
(* lifetimeMS + lifetimeVarianceMS spawns nothing.                         *)
C38_TimeBoxSurvivesVariance ==
    \A e \in {1, 2} :
       (emitter[e].bound /\ mDataBlock.lifetimeMS > 0) =>
          /\ emitter[e].mLifetimeMS > 0
          /\ ( /\ call.op \in {"emitPath", "emitFromLast", "emitBurst"}
               /\ call.id = e
               /\ emitter[e].mElapsedTimeMS
                     > mDataBlock.lifetimeMS + mDataBlock.lifetimeVarianceMS )
                => call.spawns = 0

(* C39: no premature eviction.  A particle of the live list leaves it only *)
(* in an advanceTime of its emitter that brings its age strictly above its *)
(* total lifetime; a particle whose age after the tick is at most its      *)
(* lifetime (equal to it included) is still live, in its place among the   *)
(* survivors, so no eviction removes another particle.  An emit call       *)
(* removes no particle that was live before it: of the particles it        *)
(* spawns, those not live after it are the ones the advance code expired   *)
(* at their own spawn.                                                     *)
C39_NoPrematureEviction ==
    [][ \A e \in {1, 2} :
          LET before == Range(Live(e))
              after  == Range(LiveList(emitter'[e]))
              ticked == call'.op = "advanceTime" /\ call'.id = e
              ms     == WholeMS(ClampTick(call'.dt))
          IN /\ \A p \in before \ after :
                  /\ ticked
                  /\ emitter'[e].currentAge[p] = emitter[e].currentAge[p] + ms
                  /\ emitter'[e].currentAge[p] > emitter[e].totalLifetime[p]
             /\ (ticked /\ ~emitter[e].mDead /\ ms > 0) =>
                  /\ \A p \in before \cap after :
                       /\ emitter'[e].currentAge[p] = emitter[e].currentAge[p] + ms
                       /\ emitter'[e].currentAge[p] <= emitter[e].totalLifetime[p]
                  /\ LiveList(emitter'[e])
                       = SelectSeq(Live(e), LAMBDA p : p \in after)
             /\ EmitCall(e) =>
                  Cardinality(after \ before) = call'.spawns - call'.collapsed
      ]_vars

(* C39 witness: a tick evicted a particle whose age passed its lifetime;   *)
(* of the particles still live one has an age equal to its lifetime and    *)
(* another is younger.                                                     *)
C39_Witness ==
    /\ call.op = "advanceTime"
    /\ emitter[1].part_freelist # NULL
    /\ emitter[1].totalLifetime[emitter[1].part_freelist] = 60
    /\ emitter[1].currentAge[emitter[1].part_freelist] = 90
    /\ \E p, q \in Range(Live(1)) :
          /\ emitter[1].currentAge[p] = emitter[1].totalLifetime[p]
          /\ emitter[1].currentAge[q] < emitter[1].totalLifetime[q]

====
